---------------------------- MODULE Spec2Model ----------------------------
(***************************************************************************)
(* A model of the Vietnamese MCQ RAG evaluation system:                    *)
(*   - MCQProcessor.calculate_score / evaluate_results /                   *)
(*     run_complete_evaluation / save_predictions / load_ground_truth      *)
(*                                       (src/mcq_processor.py)            *)
(*   - VietnameseMCQRAG.parse_answer / answer_mcq /                        *)
(*     generate_answer_with_qwen3 / reformulate_query / classify_question /*)
(*     adaptive_retrieval / rerank_nodes / generate_adaptive_prompt and    *)
(*     HybridRetriever._retrieve         (src/rag_system.py)               *)
(*   - QuestionClassifier.classify       (src/question_classifier.py)      *)
(*                                                                         *)
(* Conventions.                                                            *)
(*   - A Python list is a sequence; set(list) is SetOf(list).              *)
(*   - A score is held in tenths: 1.0 is 10, 0.5 is 5 and 0.0 is 0.        *)
(*   - final_score is held as the fraction num/den of the float the code   *)
(*     computes, (total_score / len(scores)) * 100.                        *)
(*   - Wall-clock processing times are left out: no decision reads them.   *)
(*   - A response or generated text is a list of symbols, one per          *)
(*     character or marker; a question is a list of phrases ("cues")       *)
(*     joined by single spaces.                                            *)
(*   - None is the string "None"; RERANKER_TOP_K = None is 0.              *)
(*   - A file is the list of its lines, a line a list of characters.       *)
(*   - The fusion weight alpha is held in tenths: 0.5 is 5.                *)
(***************************************************************************)
EXTENDS Integers, Sequences, FiniteSets, TLC

VARIABLES
    pc,               \* position of the operation under way
    log,              \* kinds of message written through Logger.log_error
    \* MCQProcessor.calculate_score
    predicted,        \* argument: predicted answer list
    actual,           \* argument: actual answer list
    score,            \* return value, in tenths
    \* MCQProcessor.run_complete_evaluation
    total_questions,  \* number of rows of the question bank
    truth_file,       \* the list load_ground_truth returns, one entry per bank row
    range_spec,       \* option: <<>> for None, <<start, end>> for "start-end"
    limit,            \* option: 0 for None
    random_sampling,  \* option
    questions_df,     \* index labels (0-based bank rows) of the selected questions
    results,          \* batch_process_questions' list of results so far
    failed,           \* index labels of the questions whose pipeline raised
    artifacts,        \* the files written
    \* MCQProcessor.evaluate_results / run_complete_evaluation
    predictions,      \* list of (idx, answers) results
    ground_truth,     \* list of ground-truth entries used for scoring
    evaluation,       \* the evaluation summary returned
    \* VietnameseMCQRAG.parse_answer
    response,         \* argument: the model's response, a list of symbols
    parsed,           \* return value: the answer list
    \* VietnameseMCQRAG.classify_question / QuestionClassifier.classify
    question,         \* argument: the question, a list of cues
    q_type,           \* return value: the category
    classifier,       \* field _classifier: "None" until the first call
    memo,             \* the first call, <<question, q_type, later calls (0, 1, more)>>
    \* the environment of VietnameseMCQRAG
    config,           \* RAGConfig
    generation_model, \* field generation_model: "None" when not loaded
    tokenizer,        \* field tokenizer: "None" when not loaded
    reranker,         \* field reranker: "None" when not loaded
    docstore,         \* the nodes of index.docstore
    faults,           \* the calls that raise during the operation under way
    model_output,     \* the text the generation model decodes, a list of symbols
    \* VietnameseMCQRAG.reformulate_query / adaptive_retrieval
    query,            \* reformulate_query's return value
    retrieved,        \* the lists retriever.retrieve returns, per query
    vector_retrieved, \* the ranking of the temporary VectorIndexRetriever
    nodes,            \* return value of adaptive_retrieval, rerank_nodes or _retrieve
    \* HybridRetriever._retrieve
    keyword_retrieved, \* the list bm25_retriever.retrieve returns
    \* VietnameseMCQRAG.generate_adaptive_prompt
    context,          \* argument: the context, a list of passages
    prompt,           \* return value: the prompt, a list of lines
    \* MCQProcessor.save_predictions / load_ground_truth
    file_lines,       \* the lines of the file written or read, each a list of characters
    loaded            \* the list load_ground_truth returns from file_lines

scoreVars == <<predicted, actual, score>>
evalVars == <<predictions, ground_truth, evaluation>>
parseVars == <<response, parsed>>
optionVars == <<total_questions, truth_file, range_spec, limit, random_sampling>>
runVars == <<questions_df, results, failed, artifacts>>
classifyVars == <<question, q_type, classifier, memo>>
envVars == <<config, generation_model, tokenizer, reranker, docstore, faults, model_output>>
retrieveVars == <<query, retrieved, vector_retrieved, nodes>>
ragVars == <<classifyVars, envVars, retrieveVars>>
promptVars == <<context, prompt>>
fileVars == <<file_lines, loaded>>
restVars == <<keyword_retrieved, promptVars, fileVars>>
vars == <<pc, log, predicted, actual, score, total_questions, truth_file, range_spec,
          limit, random_sampling, questions_df, results, failed, artifacts,
          predictions, ground_truth, evaluation, response, parsed,
          question, q_type, classifier, memo,
          config, generation_model, tokenizer, reranker, docstore, faults,
          model_output, query, retrieved, vector_retrieved, nodes,
          keyword_retrieved, context, prompt, file_lines, loaded>>

-----------------------------------------------------------------------------
(* Bounds of the model *)

\* longest answer list handed to calculate_score
MaxAnswerLen == 3
\* longest predictions list and longest ground-truth list handed to evaluate_results
MaxEvalLen == 4
\* longest response, in symbols, handed to parse_answer
MaxResponseLen == 5
\* most rows of the question bank, and largest row number of a range
MaxBank == 3
\* largest limit option
MaxLimit == 2
\* longest question, in cues, handed to classify
MaxQuestionLen == 3
\* longest question, in cues, of those asked again and again
MaxRepeatLen == 1
\* longest text, in symbols, the model decodes in answer_mcq
MaxOutputLen == 3
\* longest text, in characters, the model decodes in reformulate_query
MaxReformLen == 7
\* largest TOP_K of a configuration
MaxTopK == 2
\* largest RERANKER_TOP_K of a configuration
MaxRerankerTopK == 3
\* longest list of predictions handed to save_predictions on its own
MaxSaved == 2
\* longest line, in characters, of the files handed to load_ground_truth
MaxLineLen == 3
\* most lines after the header of the files handed to load_ground_truth
MaxFileLines == 2
\* longest list a search of the hybrid retriever returns
MaxHybridLen == 2
\* highest score a search of the hybrid retriever gives
MaxHybridScore == 2
\* largest combined top-K of a hybrid retriever
MaxCombinedTopK == 2

-----------------------------------------------------------------------------
(* Helpers *)

\* set(list)
SetOf(list) == {list[i] : i \in DOMAIN list}

\* min(a, b)
Min(a, b) == IF a <= b THEN a ELSE b

\* all sequences over S of length at most n
SeqUpTo(S, n) == UNION {[1..m -> S] : m \in 0..n}

RECURSIVE SumSeq(_)
\* sum(scores)
SumSeq(s) == IF s = <<>> THEN 0 ELSE Head(s) + SumSeq(Tail(s))

\* sum(1 for s in scores if s == v)
CountEq(s, v) == Cardinality({i \in DOMAIN s : s[i] = v})

\* the option letters of a question
Letters == {"A", "B", "C", "D"}

\* parse_answer's value for "could not parse": ['E']
SENTINEL == <<"E">>

\* the value of the evaluation summary before evaluate_results has returned
NoEvaluation ==
    [final_score |-> [num |-> 0, den |-> 1], total_questions |-> 0,
     perfect_answers |-> 0, partial_answers |-> 0, wrong_answers |-> 0,
     detailed_results |-> <<>>]

-----------------------------------------------------------------------------
(* MCQProcessor.calculate_score *)

\* a plausible slip: wrongly selected options are not counted as errors
calculate_score_no_wrong(p, a) ==
    LET predicted_set == SetOf(p)
        actual_set == SetOf(a)
        k == Cardinality(actual_set)
        c == Cardinality(predicted_set \cap actual_set)
        e == k - c
    IN  IF e = 0 THEN 10 ELSE IF e = 1 THEN 5 ELSE 0

\* a plausible slip: letters that are no option, the sentinel among them, are
\* dropped from the prediction before it is compared
calculate_score_options_only(p, a) ==
    LET predicted_set == SetOf(p) \cap Letters
        actual_set == SetOf(a)
        e == Cardinality(actual_set \ predicted_set)
               + Cardinality(predicted_set \ actual_set)
    IN  IF e = 0 THEN 10 ELSE IF e = 1 THEN 5 ELSE 0

calculate_score(p, a) ==
    LET predicted_set == SetOf(p)
        actual_set == SetOf(a)
        k == Cardinality(actual_set)
        c == Cardinality(predicted_set \cap actual_set)
        w == Cardinality(predicted_set \ actual_set)
        e == (k - c) + w
    IN  IF e = 0 THEN 10 ELSE IF e = 1 THEN 5 ELSE 0

-----------------------------------------------------------------------------
(* MCQProcessor.evaluate_results *)

\* a plausible slip: the loop runs over the predictions whatever the length of
\* the ground truth, a missing ground-truth entry standing as no answers
evaluate_results_no_truncation(preds, gt) ==
    LET n == Len(preds)
        detailed_results ==
            [i \in 1..n |->
                [question_idx |-> preds[i].idx + 1,
                 predicted |-> preds[i].answers,
                 actual |-> IF i <= Len(gt) THEN gt[i].answers ELSE <<>>,
                 score |-> calculate_score(preds[i].answers,
                              IF i <= Len(gt) THEN gt[i].answers ELSE <<>>)]]
        scores == [i \in 1..n |-> detailed_results[i].score]
    IN  [final_score |-> IF n > 0
                         THEN [num |-> SumSeq(scores) * 100, den |-> n * 10]
                         ELSE [num |-> 0, den |-> 1],
         total_questions |-> n,
         perfect_answers |-> CountEq(scores, 10),
         partial_answers |-> CountEq(scores, 5),
         wrong_answers |-> CountEq(scores, 0),
         detailed_results |-> detailed_results]

\* a plausible slip: a partial answer is counted as a perfect one
evaluate_results_partial_as_perfect(preds, gt) ==
    LET min_length == Min(Len(preds), Len(gt))
        detailed_results ==
            [i \in 1..min_length |->
                [question_idx |-> preds[i].idx + 1,
                 predicted |-> preds[i].answers,
                 actual |-> gt[i].answers,
                 score |-> calculate_score(preds[i].answers, gt[i].answers)]]
        scores == [i \in 1..min_length |-> detailed_results[i].score]
    IN  [final_score |-> IF min_length > 0
                         THEN [num |-> SumSeq(scores) * 100, den |-> min_length * 10]
                         ELSE [num |-> 0, den |-> 1],
         total_questions |-> min_length,
         perfect_answers |-> CountEq(scores, 10) + CountEq(scores, 5),
         partial_answers |-> 0,
         wrong_answers |-> CountEq(scores, 0),
         detailed_results |-> detailed_results]

\* the summary evaluate_results returns for predictions preds and ground truth gt
evaluate_results(preds, gt) ==
    LET min_length == Min(Len(preds), Len(gt))
        detailed_results ==
            [i \in 1..min_length |->
                [question_idx |-> preds[i].idx + 1,
                 predicted |-> preds[i].answers,
                 actual |-> gt[i].answers,
                 score |-> calculate_score(preds[i].answers, gt[i].answers)]]
        scores == [i \in 1..min_length |-> detailed_results[i].score]
        total_score == SumSeq(scores)
    IN  [final_score |-> IF Len(scores) > 0
                         THEN [num |-> total_score * 100, den |-> Len(scores) * 10]
                         ELSE [num |-> 0, den |-> 1],
         total_questions |-> Len(scores),
         perfect_answers |-> CountEq(scores, 10),
         partial_answers |-> CountEq(scores, 5),
         wrong_answers |-> CountEq(scores, 0),
         detailed_results |-> detailed_results]

\* the message evaluate_results logs before scoring
evaluate_results_log(preds, gt) ==
    IF Len(preds) # Len(gt) THEN {"mismatch"} ELSE {}

-----------------------------------------------------------------------------
(* VietnameseMCQRAG.parse_answer                                           *)
(*                                                                         *)
(* A response is a list of symbols, each standing for a piece of text:     *)
(*   "M"  the marker text "Đáp án đúng:" (in either case: the patterns    *)
(*        are matched with re.IGNORECASE)                                  *)
(*   "K"  the text "KẾT LUẬN:"            "S"  the text "**"               *)
(*   "A".."D", "a".."d"  one letter       ","  a comma                     *)
(*   " "  one whitespace character        "x"  any other character         *)
(* None of the texts of M, K and S holds a letter a-d, a comma or a        *)
(* whitespace that the group [A-D,\s]+ could take.                         *)
(***************************************************************************)

\* \s
IsWs(t) == t = " "

\* [A-D] under re.IGNORECASE
IsLetter(t) == t \in {"A", "B", "C", "D", "a", "b", "c", "d"}

\* [A-D,\s] under re.IGNORECASE
InGroup(t) == IsLetter(t) \/ t = "," \/ IsWs(t)

\* str.upper() on one letter
Upper(t) ==
    CASE t = "a" -> "A" [] t = "b" -> "B" [] t = "c" -> "C" [] t = "d" -> "D"
      [] OTHER -> t

\* not response or not response.strip()
IsBlank(r) == \A i \in DOMAIN r : IsWs(r[i])

\* the last position of the longest run of [A-D,\s] symbols that starts at
\* position j (j - 1 when the symbol at j is not one)
RunEnd(r, j) ==
    CHOOSE e \in (j - 1)..Len(r) :
        /\ \A i \in j..e : InGroup(r[i])
        /\ e = Len(r) \/ ~InGroup(r[e + 1])

\* "Đáp án đúng:\s*([A-D,\s]+)" matches at the marker at position j: the group
\* needs one symbol, which \s* gives back when the run is whitespace only
MarkerMatches(r, j) ==
    /\ j \in DOMAIN r
    /\ r[j] = "M"
    /\ j < Len(r)
    /\ InGroup(r[j + 1])

\* re.findall(r'[A-D]', match.group(1).strip().upper()) for the match at marker j
GroupAnswers(r, j) ==
    LET run == SubSeq(r, j + 1, RunEnd(r, j + 1))
        letters == SelectSeq(run, IsLetter)
    IN  [i \in DOMAIN letters |-> Upper(letters[i])]

\* the matches of patterns 1 and 2 (the same pattern under re.IGNORECASE), each
\* named by the position of its marker; the last one is the largest
PlainMatches(r) == {j \in DOMAIN r : MarkerMatches(r, j)}

\* the pattern's opening text starts at position i: "KẾT LUẬN:" for pattern 3,
\* "**KẾT LUẬN:**" for pattern 4; the value is the position it ends at, 0 if not
OpeningEnd(r, i, k) ==
    IF k = 3
    THEN IF r[i] = "K" THEN i ELSE 0
    ELSE IF i + 2 <= Len(r) /\ r[i] = "S" /\ r[i + 1] = "K" /\ r[i + 2] = "S"
         THEN i + 2 ELSE 0

RECURSIVE ConclusionLastMatch(_, _, _, _)
\* patterns 3 and 4, "<opening>\s*.*?Đáp án đúng:\s*([A-D,\s]+)" with re.DOTALL:
\* re.finditer from position pos on; each match starts at the leftmost opening
\* that a matching marker follows, takes the first such marker (.*? is lazy)
\* and ends with that marker's group. The value is the marker of the last
\* match, last when there is no further match.
ConclusionLastMatch(r, k, pos, last) ==
    LET starts == {i \in pos..Len(r) :
                      /\ OpeningEnd(r, i, k) # 0
                      /\ \E j \in (OpeningEnd(r, i, k) + 1)..Len(r) : MarkerMatches(r, j)}
    IN  IF starts = {} THEN last
        ELSE LET i == CHOOSE x \in starts : \A y \in starts : x <= y
                 markers == {j \in (OpeningEnd(r, i, k) + 1)..Len(r) : MarkerMatches(r, j)}
                 j == CHOOSE x \in markers : \A y \in markers : x <= y
             IN  ConclusionLastMatch(r, k, RunEnd(r, j + 1) + 1, j)

\* a plausible slip: matches[0] for matches[-1], the first match of the pattern
LastMatch_first(r, k) ==
    IF PlainMatches(r) = {} THEN 0
    ELSE IF k \in {1, 2} \/ ConclusionLastMatch(r, k, 1, 0) # 0
         THEN CHOOSE x \in PlainMatches(r) : \A y \in PlainMatches(r) : x <= y
         ELSE 0

\* matches[-1] of pattern k (1..4), as the position of its marker; 0 when the
\* pattern has no match
LastMatch(r, k) ==
    IF k \in {1, 2}
    THEN IF PlainMatches(r) = {} THEN 0
         ELSE CHOOSE x \in PlainMatches(r) : \A y \in PlainMatches(r) : y <= x
    ELSE ConclusionLastMatch(r, k, 1, 0)

\* the answers found in the last match of pattern k, [] without a match
PatternAnswers(r, k) ==
    IF LastMatch(r, k) = 0 THEN <<>> ELSE GroupAnswers(r, LastMatch(r, k))

\* a plausible slip: the letters are returned as found, neither deduplicated
\* nor sorted
SortedUnique_as_found(answers) == answers

\* sorted(list(set(answers)))
SortedUnique(answers) ==
    LET Chosen(x) == x \in SetOf(answers)
    IN  SelectSeq(<<"A", "B", "C", "D">>, Chosen)

\* a plausible slip: "could not parse" is returned as the empty list
parse_answer_empty_default(r) ==
    IF IsBlank(r) THEN <<>>
    ELSE LET hits == {k \in 1..4 : PatternAnswers(r, k) # <<>>}
         IN  IF hits = {} THEN <<>>
             ELSE SortedUnique(PatternAnswers(r,
                      CHOOSE k \in hits : \A h \in hits : k <= h))

\* a variant that scans the whole text for the letters A-D when no pattern
\* matches, and returns the sentinel only when there is none
parse_answer_scan_fallback(r) ==
    IF IsBlank(r) THEN SENTINEL
    ELSE LET hits == {k \in 1..4 : PatternAnswers(r, k) # <<>>}
             found == SelectSeq(r, LAMBDA t : t \in Letters)
         IN  IF hits = {}
             THEN IF found = <<>> THEN SENTINEL ELSE SortedUnique(found)
             ELSE SortedUnique(PatternAnswers(r,
                      CHOOSE k \in hits : \A h \in hits : k <= h))

\* parse_answer(response): the first pattern, in order, whose last match holds
\* a letter decides; the sentinel otherwise
parse_answer(r) ==
    IF IsBlank(r) THEN SENTINEL
    ELSE LET hits == {k \in 1..4 : PatternAnswers(r, k) # <<>>}
         IN  IF hits = {} THEN SENTINEL
             ELSE SortedUnique(PatternAnswers(r,
                      CHOOSE k \in hits : \A h \in hits : k <= h))

-----------------------------------------------------------------------------
(* VietnameseMCQRAG.answer_mcq and MCQProcessor.process_single_question *)

\* answer_mcq: the parsed response, or [] when a stage of the pipeline raised
answer_mcq(raised, r) == IF raised THEN <<>> ELSE parse_answer(r)

\* process_single_question: (idx, predicted_answers), or (idx, []) when the
\* body raised outside answer_mcq; r is the response of the generation model,
\* read only when nothing raised
process_single_question(idx, raised, pipeline_raised, r) ==
    [idx |-> idx, answers |-> IF raised THEN <<>> ELSE answer_mcq(pipeline_raised, r)]

-----------------------------------------------------------------------------
(* MCQProcessor.load_questions, batch_process_questions and                *)
(* run_complete_evaluation                                                 *)

\* seq[lo:hi] for 0 <= lo
PySlice(seq, lo, hi) == SubSeq(seq, lo + 1, Min(hi, Len(seq)))

\* df.sample(n=n, random_state=42): n distinct rows of df in the order the
\* generator draws them; which rows and which order is not decided here
Samples(df, n) ==
    {sel \in [1..n -> SetOf(df)] : \A i \in 1..n : \A j \in 1..n : i # j => sel[i] # sel[j]}

\* df.iloc[start-1:end] when a range is given
apply_range(df, rng) == IF rng # <<>> THEN PySlice(df, rng[1] - 1, rng[2]) ELSE df

\* load_questions: the index labels the returned frame may hold, in frame order
load_questions(n, lim, rnd, rng) ==
    LET df == apply_range([i \in 1..n |-> i - 1], rng)
    IN  IF lim # 0 /\ lim < Len(df)
        THEN IF rnd THEN Samples(df, lim) ELSE {SubSeq(df, 1, lim)}
        ELSE {df}

\* a plausible slip: the ground truth of a range is taken from the top of the list
adjust_ground_truth_reindexed(gt, lim, rnd, rng, df) ==
    IF rng # <<>> THEN PySlice(gt, 0, rng[2] - rng[1] + 1)
    ELSE IF lim # 0 THEN PySlice(gt, 0, lim) ELSE gt

\* run_complete_evaluation's "adjust ground truth to match selected questions"
adjust_ground_truth(gt, lim, rnd, rng, df) ==
    IF lim # 0 \/ rng # <<>>
    THEN IF rng # <<>>
         THEN PySlice(gt, rng[1] - 1, rng[2])
         ELSE IF rnd
              THEN LET InList(i) == i < Len(gt)
                       selected_indices == SelectSeq(df, InList)
                   IN  [i \in DOMAIN selected_indices |-> gt[selected_indices[i] + 1]]
              ELSE PySlice(gt, 0, lim)
    ELSE gt

RECURSIVE SortByIdx(_)
\* results.sort(key=lambda x: x[0]): a stable insertion of each result in turn
SortByIdx(rs) ==
    IF rs = <<>> THEN <<>>
    ELSE LET sorted == SortByIdx(SubSeq(rs, 1, Len(rs) - 1))
             x == rs[Len(rs)]
             NotAfter(y) == y.idx <= x.idx
             After(y) == y.idx > x.idx
         IN  SelectSeq(sorted, NotAfter) \o <<x>> \o SelectSeq(sorted, After)

\* the files run_complete_evaluation writes: output_file and its summary
PredictionsFile == "predictions.csv"
EvaluationFile == "predictions_evaluation.json"

-----------------------------------------------------------------------------
(* RAGConfig and VietnameseMCQRAG.generate_answer_with_qwen3 *)

\* the fields of RAGConfig that the operations modelled here read, with their
\* values in the source
RAGConfig ==
    [ TOP_K |-> 6,
      REFORMULATION_ENABLED |-> TRUE,
      RERANKER_ENABLED |-> TRUE,
      RERANKER_TOP_K |-> 5,
      HYBRID_ALPHA |-> 5,
      HYBRID_COMBINED_TOP_K |-> 10 ]

\* str.strip() on a list of symbols
Strip(r) ==
    IF IsBlank(r) THEN <<>>
    ELSE LET solid == {i \in DOMAIN r : ~IsWs(r[i])}
             first == CHOOSE i \in solid : \A j \in solid : i <= j
             last == CHOOSE i \in solid : \A j \in solid : j <= i
         IN  SubSeq(r, first, last)

\* "Tôi không thể xử lý câu hỏi này do lỗi kỹ thuật.", character by character:
\* whitespace, the letters c (of "câu") and d (of "do"), and other characters
APOLOGY ==
    << "x", "x", "x", " ", "x", "x", "x", "x", "x", " ", "x", "x", "x", " ",
       "x", "x", " ", "x", "x", " ", "c", "x", "x", " ", "x", "x", "x", " ",
       "x", "x", "x", " ", "d", "x", " ", "x", "x", "x", " ", "x", "x", " ",
       "x", "x", "x", "x", "x", "x" >>

\* a fallback that answers with a guess, in the format of an answer
generate_answer_guess_fallback(raised, out) ==
    IF raised THEN <<"M", " ", "A">> ELSE Strip(out)

\* generate_answer_with_qwen3: the decoded text, stripped; the apology when
\* anything from apply_chat_template to decode raised
generate_answer_with_qwen3(raised, out) ==
    IF raised THEN APOLOGY ELSE Strip(out)

-----------------------------------------------------------------------------
(* VietnameseMCQRAG.reformulate_query *)

\* the length below which a reformulated query is dropped
MIN_REFORMULATED_LEN == 5

\* a plausible slip: <= for <, a query of exactly 5 characters is dropped too
reformulate_query_longer_only(cfg, model, tok, raised, out, q) ==
    IF ~cfg.REFORMULATION_ENABLED THEN q
    ELSE IF model = "None" \/ tok = "None" THEN q
    ELSE IF raised THEN q
    ELSE IF Len(Strip(out)) <= MIN_REFORMULATED_LEN THEN q ELSE Strip(out)

\* reformulate_query(question, options): q is the question, out the text the
\* model decodes, raised whether a call inside the try block raises
reformulate_query(cfg, model, tok, raised, out, q) ==
    IF ~cfg.REFORMULATION_ENABLED THEN q
    ELSE IF model = "None" \/ tok = "None" THEN q
    ELSE IF raised THEN q
    ELSE LET reformulated_query == Strip(out)
         IN  IF reformulated_query = <<>>
                  \/ Len(reformulated_query) < MIN_REFORMULATED_LEN
             THEN q
             ELSE reformulated_query

\* what reformulate_query writes through Logger.log_error
reformulate_query_log(cfg, model, tok, raised) ==
    IF cfg.REFORMULATION_ENABLED /\ model # "None" /\ tok # "None" /\ raised
    THEN {"reformulation_error"} ELSE {}

-----------------------------------------------------------------------------
(* QuestionClassifier *)

\* The phrases questions are built from; a question is its cues joined by
\* single spaces, so the empty cue stands for extra whitespace:
\*   "theo bang"           theo bảng             "public_172"       public_172
\*   "public 172"          public 172            "hay tinh"         hãy tính
\*   "la gi"               là gì                 "su khac biet"     sự khác biệt
\*   "buoc nao"            bước nào              "vai tro"          vai trò
\*   "nguyen ly hoat dong" nguyên lý hoạt động   "thuat toan nao"   thuật toán nào
\*   "Tai sao"             Tại sao               "xyz"              a word of no pattern
Cues ==
    { "theo bang", "public_172", "public 172", "hay tinh", "la gi",
      "su khac biet", "buoc nao", "nguyen ly hoat dong", "thuat toan nao",
      "vai tro", "Tai sao", "xyz", "" }

\* the categories classify returns
Categories ==
    { "table_data", "document_comprehension", "calculation", "definition",
      "comparison", "procedure", "explanation", "identification",
      "application", "reason", "general" }

\* a pattern over cues: the cues occur in this order, with any text between
\* them (.*), and with nothing but whitespace after the last one when at_end
\* (\s*$)
Pattern(cues, at_end) == [cues |-> cues, at_end |-> at_end]

\* self.patterns: per category, in the order of the source, the patterns that
\* can match a question over Cues (every other pattern needs a word that is
\* in no cue)
patterns ==
    [ c \in Categories \ {"general"} |->
        CASE c = "calculation" -> << Pattern(<<"hay tinh">>, FALSE) >>
          [] c = "table_data" -> << Pattern(<<"theo bang">>, FALSE) >>
          [] c = "document_comprehension" ->
                << Pattern(<<"public_172">>, FALSE), Pattern(<<"public 172">>, FALSE) >>
          [] c = "definition" -> << Pattern(<<"la gi">>, TRUE) >>
          [] c = "comparison" -> << Pattern(<<"su khac biet">>, FALSE) >>
          [] c = "procedure" -> << Pattern(<<"buoc nao">>, FALSE) >>
          [] c = "explanation" ->
                << Pattern(<<"nguyen ly hoat dong">>, FALSE),
                   Pattern(<<"vai tro", "la gi">>, FALSE) >>
          [] c = "identification" -> << Pattern(<<"thuat toan nao">>, FALSE) >>
          [] c = "application" -> << Pattern(<<"vai tro">>, FALSE) >>
          [] c = "reason" -> << Pattern(<<"tai sao">>, FALSE) >> ]

\* str.lower() on a question
lower(text) ==
    [i \in DOMAIN text |-> IF text[i] = "Tai sao" THEN "tai sao" ELSE text[i]]

\* not question or not question.strip()
IsBlankQuestion(text) == \A i \in DOMAIN text : text[i] = ""

\* re.search(pattern, text)
re_search(pattern, text) ==
    \E at \in [DOMAIN pattern.cues -> DOMAIN text] :
        /\ \A i \in DOMAIN pattern.cues : text[at[i]] = pattern.cues[i]
        /\ \A i \in DOMAIN pattern.cues : \A j \in DOMAIN pattern.cues :
              i < j => at[i] < at[j]
        /\ pattern.at_end =>
              \A n \in (at[Len(pattern.cues)] + 1)..Len(text) : text[n] = ""

\* the order in which self.patterns declares the categories
priority_order_as_declared ==
    << "calculation", "table_data", "document_comprehension", "definition",
       "comparison", "procedure", "explanation", "identification",
       "application", "reason" >>

\* priority_order of classify
priority_order ==
    << "table_data", "document_comprehension", "calculation", "definition",
       "comparison", "procedure", "explanation", "identification",
       "application", "reason" >>

\* a classifier that answers 'general' while _classifier is still None
classify_general_until_created(text) ==
    IF classifier = "None" \/ IsBlankQuestion(text) THEN "general"
    ELSE LET hits == {i \in DOMAIN priority_order :
                         \E n \in DOMAIN patterns[priority_order[i]] :
                             re_search(patterns[priority_order[i]][n], lower(text))}
         IN  IF hits = {} THEN "general"
             ELSE priority_order[CHOOSE i \in hits : \A h \in hits : i <= h]

\* QuestionClassifier.classify(question)
classify(text) ==
    IF IsBlankQuestion(text) THEN "general"
    ELSE LET question_lower == lower(text)
             hits == {i \in DOMAIN priority_order :
                         \E n \in DOMAIN patterns[priority_order[i]] :
                             re_search(patterns[priority_order[i]][n], question_lower)}
         IN  IF hits = {} THEN "general"
             ELSE priority_order[CHOOSE i \in hits : \A h \in hits : i <= h]

-----------------------------------------------------------------------------
(* VietnameseMCQRAG.rerank_nodes, _retrieve_by_document, adaptive_retrieval *)

\* The nodes of the index. A node holds the digits of the document it comes
\* from (file public_<doc>.pdf), what the heuristics count in its text
\* (numbers, table keywords, definition keywords, length), the score the
\* reranker computes for it (relevance) and its score attribute, which starts
\* as the retrieval score.
Pool ==
    { [id |-> 1, doc |-> <<1, 7, 2>>, numbers |-> 0, tables |-> 2, defs |-> 0,
       len |-> 3, relevance |-> 1, score |-> 9],
      [id |-> 2, doc |-> <<1, 7, 2>>, numbers |-> 3, tables |-> 0, defs |-> 1,
       len |-> 1, relevance |-> 3, score |-> 8],
      [id |-> 3, doc |-> <<6, 3, 3>>, numbers |-> 1, tables |-> 0, defs |-> 1,
       len |-> 2, relevance |-> 2, score |-> 7] }

\* seq[:n]
Take(seq, n) == SubSeq(seq, 1, Min(n, Len(seq)))

\* tuple comparison of two keys <<k1, k2>>
KeyLess(a, b) == a[1] < b[1] \/ (a[1] = b[1] /\ a[2] < b[2])

\* sorted(seq, key=...): key[i] is the key <<k1, k2>> of seq[i]; the sort is
\* stable, and reverse=True on a number is the ascending sort on its negation
SortedBy(seq, key) ==
    LET place(i) == 1 + Cardinality({j \in DOMAIN seq :
                          \/ KeyLess(key[j], key[i])
                          \/ key[j] = key[i] /\ j < i})
    IN  [p \in DOMAIN seq |-> seq[CHOOSE i \in DOMAIN seq : place(i) = p]]

\* the cap of the oversized top_k
OVERSIZE_CAP == 20

\* min(self.config.TOP_K * 2, 20)
oversized_top_k(cfg) == Min(cfg.TOP_K * 2, OVERSIZE_CAP)

\* rerank_nodes, had it dropped the passages when compute_scores raises
rerank_nodes_drop_on_error(cfg, rr, raised, ns) ==
    IF ~cfg.RERANKER_ENABLED \/ rr = "None" THEN [nodes |-> ns, log |-> {}]
    ELSE IF ns = <<>> THEN [nodes |-> ns, log |-> {}]
    ELSE IF raised THEN [nodes |-> <<>>, log |-> {"rerank_error"}]
    ELSE LET nodes_with_scores ==
                 SortedBy(ns, [i \in DOMAIN ns |-> <<-ns[i].relevance, 0>>])
             reranked_nodes ==
                 [i \in DOMAIN nodes_with_scores |->
                     [nodes_with_scores[i] EXCEPT
                         !.score = nodes_with_scores[i].relevance]]
         IN  [nodes |-> IF cfg.RERANKER_TOP_K # 0
                        THEN Take(reranked_nodes, cfg.RERANKER_TOP_K)
                        ELSE reranked_nodes,
              log |-> {}]

\* rerank_nodes, had it left the passages in the order it was given them
rerank_nodes_no_sort(cfg, rr, raised, ns) ==
    IF ~cfg.RERANKER_ENABLED \/ rr = "None" THEN [nodes |-> ns, log |-> {}]
    ELSE IF ns = <<>> THEN [nodes |-> ns, log |-> {}]
    ELSE IF raised THEN [nodes |-> ns, log |-> {"rerank_error"}]
    ELSE LET kept == IF cfg.RERANKER_TOP_K # 0
                     THEN Take(ns, cfg.RERANKER_TOP_K) ELSE ns
             reranked_nodes ==
                 [i \in DOMAIN kept |-> [kept[i] EXCEPT !.score = kept[i].relevance]]
         IN  [nodes |-> reranked_nodes, log |-> {}]

\* rerank_nodes(nodes, query): the value is the list returned and what is
\* logged; raised is whether compute_scores raises
rerank_nodes(cfg, rr, raised, ns) ==
    IF ~cfg.RERANKER_ENABLED \/ rr = "None" THEN [nodes |-> ns, log |-> {}]
    ELSE IF ns = <<>> THEN [nodes |-> ns, log |-> {}]
    ELSE IF raised THEN [nodes |-> ns, log |-> {"rerank_error"}]
    ELSE LET nodes_with_scores ==
                 SortedBy(ns, [i \in DOMAIN ns |-> <<-ns[i].relevance, 0>>])
             reranked_nodes ==
                 [i \in DOMAIN nodes_with_scores |->
                     [nodes_with_scores[i] EXCEPT
                         !.score = nodes_with_scores[i].relevance]]
         IN  [nodes |-> IF cfg.RERANKER_TOP_K # 0
                        THEN Take(reranked_nodes, cfg.RERANKER_TOP_K)
                        ELSE reranked_nodes,
              log |-> {}]

\* f'public_{doc_id}' in file_name.lower(): the file name is public_<doc>.pdf,
\* so the test is that doc_id is a prefix of the document's digits
FileMatches(doc, doc_id) ==
    Len(doc_id) <= Len(doc) /\ SubSeq(doc, 1, Len(doc_id)) = doc_id

\* _retrieve_by_document(doc_id, query): vec is the ranking of the whole index
\* by the temporary retriever, raised whether its retrieve raises
retrieve_by_document(cfg, raised, doc_id, vec, ds) ==
    LET FromDoc(n) == FileMatches(n.doc, doc_id)
        all_nodes == {n \in ds : FromDoc(n)}
    IN  IF all_nodes = {} THEN [nodes |-> <<>>, log |-> {}]
        ELSE IF raised
        THEN [nodes |-> <<>>, log |-> {"document_retrieval_error"}]
        ELSE LET found == Take(vec, Min(Cardinality(all_nodes), cfg.TOP_K * 2))
                 filtered_nodes == SelectSeq(found, FromDoc)
             IN  [nodes |-> IF filtered_nodes # <<>> THEN filtered_nodes ELSE found,
                  log |-> {}]

\* re.search(r'public_(\d+)', question.lower()): the digits of the first
\* reference in the underscore form, <<>> when there is none
doc_match(q) ==
    IF \E i \in DOMAIN q : lower(q)[i] = "public_172" THEN <<1, 7, 2>> ELSE <<>>

\* the try block of adaptive_retrieval: ret.plain and ret.table are the lists
\* the retriever returns for the reformulated query and for the table query;
\* flt names the calls that raise. The value tells whether the block raised,
\* and the list it returned and what was logged when it did not.
adaptive_retrieval_try(cfg, rr, flt, q, qt, ret, vec, ds) ==
    LET Raised == [raised |-> TRUE, nodes |-> <<>>, log |-> {}]
        Return(r, ns) == [raised |-> FALSE, nodes |-> ns, log |-> r.log]
        rerank(ns) == rerank_nodes(cfg, rr, "reranker" \in flt, ns)
        has_numbers(ns) == [i \in DOMAIN ns |-> <<-ns[i].numbers, 0>>]
        has_table_keywords(ns) == [i \in DOMAIN ns |-> <<-ns[i].tables, 0>>]
        definition_key(ns) == [i \in DOMAIN ns |-> <<-ns[i].defs, ns[i].len>>]
        generic ==
            IF "retriever" \in flt THEN Raised
            ELSE LET r == rerank(Take(ret.plain, oversized_top_k(cfg)))
                 IN  Return(r, r.nodes)
    IN  CASE qt = "calculation" ->
               IF "retriever" \in flt THEN Raised
               ELSE IF "heuristic" \in flt /\ ret.plain # <<>> THEN Raised
               ELSE LET r == rerank(Take(SortedBy(ret.plain, has_numbers(ret.plain)),
                                         oversized_top_k(cfg)))
                    IN  Return(r, r.nodes)
          [] qt = "table_data" ->
               IF "retriever" \in flt THEN Raised
               ELSE IF "heuristic" \in flt /\ ret.table # <<>> THEN Raised
               ELSE LET r == rerank(Take(SortedBy(ret.table, has_table_keywords(ret.table)),
                                         cfg.TOP_K * 2))
                    IN  Return(r, Take(r.nodes, cfg.TOP_K))
          [] qt = "document_comprehension" ->
               IF doc_match(q) = <<>> THEN generic
               ELSE LET d == retrieve_by_document(cfg, "vector_retriever" \in flt,
                                                  doc_match(q), vec, ds)
                    IN  IF d.nodes # <<>>
                        THEN LET r == rerank(d.nodes)
                             IN  [raised |-> FALSE, nodes |-> Take(r.nodes, cfg.TOP_K),
                                  log |-> d.log \cup r.log]
                        ELSE [generic EXCEPT !.log = @ \cup d.log]
          [] qt = "definition" ->
               IF "retriever" \in flt THEN Raised
               ELSE IF "heuristic" \in flt /\ ret.plain # <<>> THEN Raised
               ELSE LET r == rerank(Take(SortedBy(ret.plain, definition_key(ret.plain)),
                                         cfg.TOP_K * 2))
                    IN  Return(r, Take(r.nodes, cfg.TOP_K))
          [] qt = "explanation" -> generic
          [] OTHER ->
               IF "retriever" \in flt THEN Raised
               ELSE LET r == rerank(Take(ret.plain, cfg.TOP_K * 2))
                    IN  Return(r, Take(r.nodes, cfg.TOP_K))

\* adaptive_retrieval(question, q_type, reformulated_query): the try block and
\* its handler, which logs, retrieves again and reranks; raised is whether an
\* exception leaves the operation
adaptive_retrieval(cfg, rr, flt, q, qt, ret, vec, ds) ==
    LET t == adaptive_retrieval_try(cfg, rr, flt, q, qt, ret, vec, ds)
    IN  IF ~t.raised THEN t
        ELSE IF "fallback_retriever" \in flt
        THEN [raised |-> TRUE, nodes |-> <<>>,
              log |-> t.log \cup {"adaptive_retrieval_error"}]
        ELSE LET r == rerank_nodes(cfg, rr, "reranker" \in flt,
                                   Take(ret.plain, cfg.TOP_K * 2))
             IN  [raised |-> FALSE, nodes |-> Take(r.nodes, cfg.TOP_K),
                  log |-> t.log \cup {"adaptive_retrieval_error"} \cup r.log]

-----------------------------------------------------------------------------
(* HybridRetriever._retrieve. The fusion weight alpha is counted in tenths,  *)
(* so the fused scores are in tenths of the retrievers' scores.              *)

\* alpha = 1.0, in tenths
ALPHA_ONE == 10

\* the position of the node of this id in a list, 0 when it is not there
PositionOf(list, id) ==
    IF \E i \in DOMAIN list : list[i].id = id
    THEN CHOOSE i \in DOMAIN list : list[i].id = id
    ELSE 0

\* _retrieve, had it listed the results of the two searches one after the
\* other without merging the passages both found
retrieve_no_merge(alpha, top_k, vector_nodes, keyword_nodes) ==
    LET weighted == [i \in DOMAIN vector_nodes |->
                        [vector_nodes[i] EXCEPT !.score = @ * alpha]]
                    \o [i \in DOMAIN keyword_nodes |->
                        [keyword_nodes[i] EXCEPT !.score = @ * (ALPHA_ONE - alpha)]]
    IN  Take(SortedBy(weighted, [i \in DOMAIN weighted |-> <<-weighted[i].score, 0>>]),
             top_k)

\* _retrieve(query_bundle) for the lists the two retrievers return:
\* combined_nodes holds an entry per node id, the vector search's first and
\* then those the keyword search alone found; each node gets the sum of its
\* two weighted scores, the entries are sorted by it, highest first, and the
\* first top_k nodes are returned
retrieve(alpha, top_k, vector_nodes, keyword_nodes) ==
    LET KeywordOnly(n) == PositionOf(vector_nodes, n.id) = 0
        keyword_only == SelectSeq(keyword_nodes, KeywordOnly)
        combined_nodes ==
            [i \in DOMAIN vector_nodes |->
                [node |-> vector_nodes[i],
                 vector_score |-> vector_nodes[i].score * alpha,
                 keyword_score |->
                    IF PositionOf(keyword_nodes, vector_nodes[i].id) # 0
                    THEN keyword_nodes[PositionOf(keyword_nodes,
                                                  vector_nodes[i].id)].score
                             * (ALPHA_ONE - alpha)
                    ELSE 0]]
            \o [i \in DOMAIN keyword_only |->
                [node |-> keyword_only[i],
                 vector_score |-> 0,
                 keyword_score |-> keyword_only[i].score * (ALPHA_ONE - alpha)]]
        combined_score(data) == data.vector_score + data.keyword_score
        sorted_nodes ==
            SortedBy(combined_nodes,
                     [i \in DOMAIN combined_nodes |->
                         <<-combined_score(combined_nodes[i]), 0>>])
        kept == Take(sorted_nodes, top_k)
    IN  [i \in DOMAIN kept |->
            [kept[i].node EXCEPT !.score = combined_score(kept[i])]]

-----------------------------------------------------------------------------
(* MCQProcessor.save_predictions and load_ground_truth. A file is the list  *)
(* of its lines without their newlines; a line and an answer are strings,   *)
(* lists of characters. A letter of an answer list is the string of that    *)
(* one character.                                                           *)

\* the decimal digits
DIGITS == <<"0", "1", "2", "3", "4", "5", "6", "7", "8", "9">>

RECURSIVE str(_)
\* str(n) for n >= 0
str(n) == IF n < 10 THEN <<DIGITS[n + 1]>>
          ELSE str(n \div 10) \o <<DIGITS[(n % 10) + 1]>>

\* the digit a character writes
DigitValue(c) == (CHOOSE d \in DOMAIN DIGITS : DIGITS[d] = c) - 1

\* int(s) returns: s holds digits only, with whitespace around them at most
IsInt(s) ==
    /\ Strip(s) # <<>>
    /\ \A i \in DOMAIN Strip(s) : Strip(s)[i] \in SetOf(DIGITS)

RECURSIVE DigitsValue(_)
DigitsValue(s) ==
    IF s = <<>> THEN 0
    ELSE 10 * DigitsValue(SubSeq(s, 1, Len(s) - 1)) + DigitValue(s[Len(s)])

\* int(s) when it returns
int(s) == DigitsValue(Strip(s))

\* the string of a letter of an answer list
Chars(a) == <<a>>

RECURSIVE Join(_)
\* ",".join(answers)
Join(answers) ==
    IF answers = <<>> THEN <<>>
    ELSE IF Len(answers) = 1 THEN Chars(answers[1])
    ELSE Chars(answers[1]) \o <<",">> \o Join(Tail(answers))

\* the position of the first comma of s, 0 when it has none
FirstComma(s) ==
    IF \E i \in DOMAIN s : s[i] = ","
    THEN CHOOSE i \in DOMAIN s : s[i] = "," /\ \A j \in 1..(i - 1) : s[j] # ","
    ELSE 0

RECURSIVE Split(_)
\* s.split(',')
Split(s) ==
    IF FirstComma(s) = 0 THEN <<s>>
    ELSE <<SubSeq(s, 1, FirstComma(s) - 1)>> \o Split(SubSeq(s, FirstComma(s) + 1, Len(s)))

\* s.strip('"')
StripQuotes(s) ==
    LET solid == {i \in DOMAIN s : s[i] # "\""}
    IN  IF solid = {} THEN <<>>
        ELSE SubSeq(s, CHOOSE i \in solid : \A j \in solid : i <= j,
                       CHOOSE i \in solid : \A j \in solid : j <= i)

\* the header line, "num_correct,answers"
HEADER == <<"n", "u", "m", "_", "c", "o", "r", "r", "e", "c", "t", ",",
            "a", "n", "s", "w", "e", "r", "s">>

\* the line save_predictions writes for one answer list
PredictionLine(answers) ==
    LET num_correct == Len(answers)
        answers_str == IF num_correct = 0 THEN <<>>
                       ELSE IF num_correct = 1 THEN Chars(answers[1])
                       ELSE <<"\"">> \o Join(answers) \o <<"\"">>
    IN  str(num_correct) \o <<",">> \o answers_str

\* save_predictions, had it quoted every answer list that is not empty
save_predictions_quote_single(preds) ==
    <<HEADER>> \o [i \in DOMAIN preds |->
        IF preds[i].answers = <<>> THEN <<"0", ",">>
        ELSE str(Len(preds[i].answers)) \o <<",", "\"">> \o Join(preds[i].answers)
                 \o <<"\"">>]

\* save_predictions(predictions, output_file): the lines of the file written
save_predictions(preds) ==
    <<HEADER>> \o [i \in DOMAIN preds |-> PredictionLine(preds[i].answers)]

\* the entry load_ground_truth makes of a stripped line that holds a comma
LineEntry(line) ==
    LET num_correct == int(SubSeq(line, 1, FirstComma(line) - 1))
        answers_str == StripQuotes(SubSeq(line, FirstComma(line) + 1, Len(line)))
        fields == Split(answers_str)
    IN  [num_correct |-> num_correct,
         answers |-> IF answers_str # <<>>
                     THEN [i \in DOMAIN fields |-> Strip(fields[i])]
                     ELSE <<>>]

\* load_ground_truth, had it kept the quotes of the answers field
load_ground_truth_keep_quotes(lines) ==
    LET data == [i \in 1..(Len(lines) - 1) |-> Strip(lines[i + 1])]
        Parsed(line) == line # <<>> /\ FirstComma(line) # 0
        parsed_lines == SelectSeq(data, Parsed)
        Entry(line) ==
            LET fields == Split(SubSeq(line, FirstComma(line) + 1, Len(line)))
            IN  [num_correct |-> int(SubSeq(line, 1, FirstComma(line) - 1)),
                 answers |-> IF FirstComma(line) < Len(line)
                             THEN [i \in DOMAIN fields |-> Strip(fields[i])]
                             ELSE <<>>]
    IN  IF \E i \in DOMAIN parsed_lines :
              ~IsInt(SubSeq(parsed_lines[i], 1, FirstComma(parsed_lines[i]) - 1))
        THEN [raised |-> TRUE, results |-> <<>>]
        ELSE [raised |-> FALSE,
              results |-> [i \in DOMAIN parsed_lines |-> Entry(parsed_lines[i])]]

\* load_ground_truth(file_path) on a file of these lines: whether it raises,
\* and the list it returns when it does not. The first line is skipped, blank
\* lines and lines without a comma are passed over, and int raises on a count
\* that is no integer.
load_ground_truth(lines) ==
    LET data == [i \in 1..(Len(lines) - 1) |-> Strip(lines[i + 1])]
        Parsed(line) == line # <<>> /\ FirstComma(line) # 0
        parsed_lines == SelectSeq(data, Parsed)
    IN  IF \E i \in DOMAIN parsed_lines :
              ~IsInt(SubSeq(parsed_lines[i], 1, FirstComma(parsed_lines[i]) - 1))
        THEN [raised |-> TRUE, results |-> <<>>]
        ELSE [raised |-> FALSE,
              results |-> [i \in DOMAIN parsed_lines |-> LineEntry(parsed_lines[i])]]

-----------------------------------------------------------------------------
(* VietnameseMCQRAG.generate_adaptive_prompt. A prompt is the list of its    *)
(* lines; a line is a list of words, the first naming what the line is.      *)

\* the text of a node
NodeText(n) == <<"text", DIGITS[n.id + 1]>>

\* "\n\n".join(node.text for node in nodes), as answer_mcq builds the context
JoinTexts(ns) == [i \in DOMAIN ns |-> NodeText(ns[i])]

\* the letters of the options
OptionLetters == <<"A", "B", "C", "D">>

\* base_prompt: the role, the context, the question and the options
base_prompt(q, ctx) ==
    <<<<"role">>, <<"context">>>> \o ctx
        \o <<<<"question">> \o q, <<"options">> \o OptionLetters>>

\* an instruction block: its heading, its numbered steps and the lines that
\* close it
Block(heading, steps, closing) ==
    <<<<"heading", heading>>>> \o [i \in 1..steps |-> <<"step", DIGITS[i + 1]>>]
        \o closing

\* 'Trả lời theo định dạng: "Đáp án đúng: [danh sách]"'
FORMAT_LINE == <<"format">>

\* 'Nếu không tìm thấy thông tin đủ trong context, trả lời: "Không có thông
\* tin đủ để trả lời"'
FALLBACK_LINE == <<"fallback">>

\* the blocks of the categories: each closes with the answer format
type_specific_instructions ==
    [c \in Categories \ {"general"} |->
        CASE c = "calculation" -> Block(c, 6, <<FORMAT_LINE>>)
          [] c = "table_data" -> Block(c, 5, <<FORMAT_LINE>>)
          [] c = "comparison" -> Block(c, 3, <<FORMAT_LINE>>)
          [] OTHER -> Block(c, 4, <<FORMAT_LINE>>)]

\* the default of type_specific_instructions.get: the general block, which
\* closes with the answer format and the fallback phrase
general_instructions == Block("general", 3, <<FORMAT_LINE, FALLBACK_LINE>>)

\* generate_adaptive_prompt(question, q_type, context, options)
generate_adaptive_prompt(q, qt, ctx) ==
    base_prompt(q, ctx) \o (IF qt \in DOMAIN type_specific_instructions
                            THEN type_specific_instructions[qt]
                            ELSE general_instructions)

-----------------------------------------------------------------------------
(* Idle values of the state each specification leaves alone *)

ScoreIdle == predicted = <<>> /\ actual = <<>> /\ score = 0
EvalIdle == predictions = <<>> /\ ground_truth = <<>> /\ evaluation = NoEvaluation
ParseIdle == response = <<>> /\ parsed = <<>>
ClassifyIdle == question = <<>> /\ q_type = "None" /\ classifier = "None" /\ memo = <<>>
EnvIdle ==
    /\ config = RAGConfig
    /\ generation_model = "None"
    /\ tokenizer = "None"
    /\ reranker = "None"
    /\ docstore = {}
    /\ faults = {}
    /\ model_output = <<>>
RetrieveIdle ==
    /\ query = <<>>
    /\ retrieved = [plain |-> <<>>, table |-> <<>>]
    /\ vector_retrieved = <<>>
    /\ nodes = <<>>
RagIdle == ClassifyIdle /\ EnvIdle /\ RetrieveIdle
PromptIdle == context = <<>> /\ prompt = <<>>
FileIdle == file_lines = <<>> /\ loaded = <<>>
HybridIdle == keyword_retrieved = <<>>
RestIdle == HybridIdle /\ PromptIdle /\ FileIdle
RunIdle ==
    /\ total_questions = 0
    /\ truth_file = <<>>
    /\ range_spec = <<>>
    /\ limit = 0
    /\ random_sampling = FALSE
    /\ questions_df = <<>>
    /\ results = <<>>
    /\ failed = {}
    /\ artifacts = {}

-----------------------------------------------------------------------------
(* SpecScore: calculate_score on every pair of answer lists *)

\* the letters an answer list may hold: the options and the sentinel's letter
ScoreLetters == Letters \cup SetOf(SENTINEL)

ScoreInit ==
    /\ pc = "score_call"
    /\ RagIdle
    /\ log = {}
    /\ predicted \in SeqUpTo(ScoreLetters, MaxAnswerLen)
    /\ actual \in SeqUpTo(ScoreLetters, MaxAnswerLen)
    /\ score = 0
    /\ RunIdle
    /\ EvalIdle
    /\ ParseIdle
    /\ RestIdle

Score ==
    /\ pc = "score_call"
    /\ score' = calculate_score(predicted, actual)
    /\ pc' = "score_ret"
    /\ UNCHANGED <<log, predicted, actual, optionVars, runVars, evalVars, parseVars>>
    /\ UNCHANGED ragVars
    /\ UNCHANGED restVars

ScoreNext == Score

SpecScore == ScoreInit /\ [][ScoreNext]_vars

-----------------------------------------------------------------------------
(* SpecEval: evaluate_results on every pair of lists *)

\* predicted answer lists of the inputs
PredChoices == {<<"A">>, <<"B">>, <<>>, <<"A", "B", "C">>}
\* ground-truth answer lists of the inputs
TruthChoices == {<<"A">>, <<"B", "C">>, <<>>, <<"A", "B", "C", "D">>}

EvalInit ==
    /\ pc = "eval_call"
    /\ RagIdle
    /\ log = {}
    /\ ScoreIdle
    /\ RunIdle
    /\ ParseIdle
    /\ \E a \in SeqUpTo(PredChoices, MaxEvalLen) :
          predictions = [i \in 1..Len(a) |-> [idx |-> i - 1, answers |-> a[i]]]
    /\ \E a \in SeqUpTo(TruthChoices, MaxEvalLen) :
          ground_truth = [i \in 1..Len(a) |-> [row |-> i - 1, answers |-> a[i]]]
    /\ evaluation = NoEvaluation
    /\ RestIdle

EvaluateResults ==
    /\ pc = "eval_call"
    /\ log' = log \cup evaluate_results_log(predictions, ground_truth)
    /\ evaluation' = evaluate_results(predictions, ground_truth)
    /\ pc' = "eval_ret"
    /\ UNCHANGED <<scoreVars, optionVars, runVars, predictions, ground_truth, parseVars>>
    /\ UNCHANGED ragVars
    /\ UNCHANGED restVars

EvalNext == EvaluateResults

SpecEval == EvalInit /\ [][EvalNext]_vars

-----------------------------------------------------------------------------
(* SpecParse: parse_answer on every response *)

\* the symbols of the responses
Symbols == {"M", "K", "S", "A", "B", "d", ",", " ", "x"}

\* longer responses in the format the prompt asks for: "Đáp án đúng: A, C",
\* the same list out of order and with a repeat, and a reasoning section
\* followed by the answer line
ExampleResponses ==
    { <<"M", " ", "A", ",", " ", "C">>,
      <<"M", " ", "C", ",", " ", "A", ",", " ", "C">>,
      <<"x", " ", "A", " ", "x", " ", "M", " ", "B", ",", " ", "D">> }

ParseInit ==
    /\ pc = "parse_call"
    /\ RagIdle
    /\ log = {}
    /\ ScoreIdle
    /\ RunIdle
    /\ EvalIdle
    /\ response \in SeqUpTo(Symbols, MaxResponseLen) \cup ExampleResponses
    /\ parsed = <<>>
    /\ RestIdle

ParseAnswer ==
    /\ pc = "parse_call"
    /\ parsed' = parse_answer(response)
    /\ pc' = "parse_ret"
    /\ UNCHANGED <<log, scoreVars, optionVars, runVars, evalVars, response>>
    /\ UNCHANGED ragVars
    /\ UNCHANGED restVars

ParseNext == ParseAnswer

SpecParse == ParseInit /\ [][ParseNext]_vars

-----------------------------------------------------------------------------
(* SpecRun: run_complete_evaluation over every bank, ground truth and       *)
(* combination of the range, limit and sampling options                     *)

\* ground-truth answer lists of the bank's rows
BankTruthChoices == {<<>>, <<"A">>, <<"A", "B">>}

\* the responses of the generation model: one stating answer A, one stating
\* answers A and B, one stating none
RunResponses == {<<"M", " ", "A">>, <<"M", " ", "B", ",", "A">>, <<"x">>}

RunInit ==
    /\ pc = "run_call"
    /\ RagIdle
    /\ log = {}
    /\ ScoreIdle
    /\ ParseIdle
    /\ total_questions \in 0..MaxBank
    /\ \E a \in [1..total_questions -> BankTruthChoices] :
          truth_file = [i \in 1..total_questions |-> [row |-> i - 1, answers |-> a[i]]]
    /\ range_spec \in {<<>>} \cup {<<s, e>> : s \in 1..MaxBank, e \in 1..MaxBank}
    /\ range_spec # <<>> => range_spec[1] <= range_spec[2]
    /\ limit \in 0..MaxLimit
    /\ random_sampling \in BOOLEAN
    /\ questions_df = <<>>
    /\ results = <<>>
    /\ failed = {}
    /\ artifacts = {}
    /\ EvalIdle
    /\ RestIdle

\* load_questions, load_ground_truth and the adjustment of the ground truth
RunLoad ==
    /\ pc = "run_call"
    /\ \E df \in load_questions(total_questions, limit, random_sampling, range_spec) :
          /\ questions_df' = df
          /\ ground_truth' =
                adjust_ground_truth(truth_file, limit, random_sampling, range_spec, df)
    /\ pc' = "run_batch"
    /\ UNCHANGED <<log, scoreVars, optionVars, results, failed, artifacts,
                   predictions, evaluation, parseVars>>
    /\ UNCHANGED ragVars
    /\ UNCHANGED restVars

\* one turn of batch_process_questions' loop: the model answers
RunQuestionAnswered ==
    /\ pc = "run_batch"
    /\ Len(results) < Len(questions_df)
    /\ \E r \in RunResponses :
          results' = Append(results,
              process_single_question(questions_df[Len(results) + 1], FALSE, FALSE, r))
    /\ UNCHANGED <<pc, log, scoreVars, optionVars, questions_df, failed, artifacts,
                   evalVars, parseVars>>
    /\ UNCHANGED ragVars
    /\ UNCHANGED restVars

\* one turn of the loop: a stage of the pipeline raises inside answer_mcq
RunPipelineRaised ==
    /\ pc = "run_batch"
    /\ Len(results) < Len(questions_df)
    /\ results' = Append(results,
          process_single_question(questions_df[Len(results) + 1], FALSE, TRUE, <<>>))
    /\ failed' = failed \cup {questions_df[Len(results) + 1]}
    /\ log' = log \cup {"answer_mcq_error"}
    /\ UNCHANGED <<pc, scoreVars, optionVars, questions_df, artifacts,
                   evalVars, parseVars>>
    /\ UNCHANGED ragVars
    /\ UNCHANGED restVars

\* one turn of the loop: process_single_question's own body raises
RunQuestionRaised ==
    /\ pc = "run_batch"
    /\ Len(results) < Len(questions_df)
    /\ results' = Append(results,
          process_single_question(questions_df[Len(results) + 1], TRUE, FALSE, <<>>))
    /\ failed' = failed \cup {questions_df[Len(results) + 1]}
    /\ log' = log \cup {"question_error"}
    /\ UNCHANGED <<pc, scoreVars, optionVars, questions_df, artifacts,
                   evalVars, parseVars>>
    /\ UNCHANGED ragVars
    /\ UNCHANGED restVars

\* the end of the loop: the sort, the timing log (processing_time /
\* len(predictions), a ZeroDivisionError without predictions, which the handler
\* logs and raises again), save_predictions, evaluate_results, the summary file
RunFinish ==
    /\ pc = "run_batch"
    /\ Len(results) = Len(questions_df)
    /\ predictions' = SortByIdx(results)
    /\ IF Len(predictions') = 0
       THEN /\ pc' = "run_raised"
            /\ log' = log \cup {"pipeline_failed"}
            /\ UNCHANGED <<artifacts, evaluation, file_lines>>
       ELSE /\ pc' = "run_ret"
            /\ artifacts' = {PredictionsFile, EvaluationFile}
            /\ file_lines' = save_predictions(predictions')
            /\ evaluation' = evaluate_results(predictions', ground_truth)
            /\ log' = log \cup evaluate_results_log(predictions', ground_truth)
    /\ UNCHANGED <<scoreVars, optionVars, questions_df, results, failed,
                   ground_truth, parseVars>>
    /\ UNCHANGED ragVars
    /\ UNCHANGED <<keyword_retrieved, promptVars, loaded>>

RunNext ==
    \/ RunLoad
    \/ RunQuestionAnswered
    \/ RunPipelineRaised
    \/ RunQuestionRaised
    \/ RunFinish

SpecRun == RunInit /\ [][RunNext]_vars

-----------------------------------------------------------------------------
(* SpecClassify: classify_question on every question *)

\* the questions asked
Questions == SeqUpTo(Cues, MaxQuestionLen)

ClassifyInit ==
    /\ pc = "classify_call"
    /\ log = {}
    /\ ScoreIdle
    /\ RunIdle
    /\ EvalIdle
    /\ ParseIdle
    /\ EnvIdle
    /\ RetrieveIdle
    /\ question \in Questions
    /\ q_type = "None"
    /\ classifier = "None"
    /\ memo = <<>>
    /\ RestIdle

\* classify_question(question): creates the classifier on the first call
ClassifyQuestion ==
    /\ pc = "classify_call"
    /\ classifier' = "QuestionClassifier"
    /\ q_type' = classify(question)
    /\ memo' = IF memo = <<>> THEN memo
               ELSE <<memo[1], memo[2], IF memo[3] = 0 THEN 1 ELSE 2>>
    /\ pc' = "classify_ret"
    /\ UNCHANGED <<log, scoreVars, optionVars, runVars, evalVars, parseVars,
                   question, envVars, retrieveVars>>
    /\ UNCHANGED restVars

ClassifyNext == ClassifyQuestion

SpecClassify == ClassifyInit /\ [][ClassifyNext]_vars

-----------------------------------------------------------------------------
(* SpecCalls: classify_question called again and again on one instance *)

\* the questions asked again and again
RepeatedQuestions == SeqUpTo(Cues, MaxRepeatLen)

CallsInit ==
    /\ pc = "classify_call"
    /\ log = {}
    /\ ScoreIdle
    /\ RunIdle
    /\ EvalIdle
    /\ ParseIdle
    /\ EnvIdle
    /\ RetrieveIdle
    /\ question \in RepeatedQuestions
    /\ q_type = "None"
    /\ classifier = "None"
    /\ memo = <<>>
    /\ RestIdle

\* the first call is kept, to be compared with the later ones
RememberCall ==
    /\ pc = "classify_ret"
    /\ memo = <<>>
    /\ memo' = <<question, q_type, 0>>
    /\ UNCHANGED <<pc, log, scoreVars, optionVars, runVars, evalVars, parseVars,
                   question, q_type, classifier, envVars, retrieveVars>>
    /\ UNCHANGED restVars

\* the caller goes on to its next question
NextQuestion ==
    /\ pc = "classify_ret"
    /\ question' \in RepeatedQuestions
    /\ q_type' = "None"
    /\ pc' = "classify_call"
    /\ UNCHANGED <<log, scoreVars, optionVars, runVars, evalVars, parseVars,
                   classifier, memo, envVars, retrieveVars>>
    /\ UNCHANGED restVars

CallsNext ==
    \/ ClassifyQuestion
    \/ RememberCall
    \/ NextQuestion

SpecCalls == CallsInit /\ [][CallsNext]_vars

-----------------------------------------------------------------------------
(* SpecAnswer: answer_mcq, from the generation step on, for every outcome   *)
(* of the pipeline and every decoded text                                   *)

AnswerInit ==
    /\ pc = "answer_call"
    /\ log = {}
    /\ ScoreIdle
    /\ RunIdle
    /\ EvalIdle
    /\ ParseIdle
    /\ ClassifyIdle
    /\ RetrieveIdle
    /\ config = RAGConfig
    /\ generation_model = "Qwen3"
    /\ tokenizer = "Qwen3"
    /\ reranker = "None"
    /\ docstore = {}
    /\ faults \in SUBSET {"pipeline", "generation"}
    /\ model_output \in SeqUpTo(Symbols, MaxOutputLen)
    /\ RestIdle

\* answer_mcq(question, options): a stage before generation raises and the
\* handler returns [], or generate_answer_with_qwen3 returns its response and
\* parse_answer parses it
AnswerMcq ==
    /\ pc = "answer_call"
    /\ IF "pipeline" \in faults
       THEN /\ parsed' = answer_mcq(TRUE, response)
            /\ log' = log \cup {"answer_mcq_error"}
            /\ UNCHANGED response
       ELSE /\ response' = generate_answer_with_qwen3("generation" \in faults,
                                                      model_output)
            /\ parsed' = answer_mcq(FALSE, response')
            /\ log' = log \cup (IF "generation" \in faults
                                THEN {"generation_error"} ELSE {})
    /\ pc' = "answer_ret"
    /\ UNCHANGED <<scoreVars, optionVars, runVars, evalVars, ragVars>>
    /\ UNCHANGED restVars

AnswerNext == AnswerMcq

SpecAnswer == AnswerInit /\ [][AnswerNext]_vars

-----------------------------------------------------------------------------
(* SpecReform: reformulate_query for every configuration, every outcome of  *)
(* the generation and every decoded text                                    *)

\* the characters of the decoded text: whitespace and anything else
ReformSymbols == {" ", "x"}

ReformInit ==
    /\ pc = "reform_call"
    /\ log = {}
    /\ ScoreIdle
    /\ RunIdle
    /\ EvalIdle
    /\ ParseIdle
    /\ RetrieveIdle
    /\ question \in {<<"Tai sao", "xyz">>, <<"la gi">>, <<>>}
    /\ q_type = "None"
    /\ classifier = "None"
    /\ memo = <<>>
    /\ config \in {[RAGConfig EXCEPT !.REFORMULATION_ENABLED = b] : b \in BOOLEAN}
    /\ generation_model \in {"None", "Qwen3"}
    /\ tokenizer \in {"None", "Qwen3"}
    /\ reranker = "None"
    /\ docstore = {}
    /\ faults \in SUBSET {"generation"}
    /\ model_output \in SeqUpTo(ReformSymbols, MaxReformLen)
    /\ RestIdle

ReformulateQuery ==
    /\ pc = "reform_call"
    /\ query' = reformulate_query(config, generation_model, tokenizer,
                                  "generation" \in faults, model_output, question)
    /\ log' = log \cup reformulate_query_log(config, generation_model, tokenizer,
                                             "generation" \in faults)
    /\ pc' = "reform_ret"
    /\ UNCHANGED <<scoreVars, optionVars, runVars, evalVars, parseVars,
                   classifyVars, envVars, retrieved, vector_retrieved, nodes>>
    /\ UNCHANGED restVars

ReformNext == ReformulateQuery

SpecReform == ReformInit /\ [][ReformNext]_vars

-----------------------------------------------------------------------------
(* SpecRetrieve: adaptive_retrieval, and rerank_nodes on its own, for every    *)
(* category, configuration, state of the reranker, index, retrieved list and  *)
(* failing call                                                               *)

\* one question per cue
RetrievalQuestions == {<<c>> : c \in Cues \ {""}}

\* the lists a retriever can return over the nodes ds: no node twice
RetrievedLists(ds) ==
    {l \in SeqUpTo(ds, Cardinality(ds)) :
        \A i \in DOMAIN l : \A j \in DOMAIN l : i # j => l[i] # l[j]}

\* the calls that can raise for a question of category qt: the retriever in the
\* try block, a heuristic's key function, the retriever in the handler, the
\* reranker's compute_scores, the temporary retriever of a document
FaultChoices(q, qt, cfg, rr) ==
    {f \in SUBSET {"retriever", "heuristic", "fallback_retriever", "reranker",
                   "vector_retriever"} :
        /\ "heuristic" \in f => qt \in {"calculation", "table_data", "definition"}
        /\ "fallback_retriever" \in f => ("retriever" \in f \/ "heuristic" \in f)
        /\ "reranker" \in f => (cfg.RERANKER_ENABLED /\ rr # "None")
        /\ "vector_retriever" \in f => doc_match(q) # <<>>}

RetrieveInit ==
    /\ pc \in {"retrieve_call", "rerank_call"}
    /\ log = {}
    /\ ScoreIdle
    /\ RunIdle
    /\ EvalIdle
    /\ ParseIdle
    /\ question \in RetrievalQuestions
    /\ q_type = classify(question)
    /\ classifier = "QuestionClassifier"
    /\ memo = <<>>
    /\ config \in {[RAGConfig EXCEPT !.TOP_K = k, !.RERANKER_ENABLED = e,
                                     !.RERANKER_TOP_K = r] :
                      k \in 1..MaxTopK, e \in BOOLEAN, r \in 0..MaxRerankerTopK}
    /\ generation_model = "Qwen3"
    /\ tokenizer = "Qwen3"
    /\ reranker \in {"None", "Qwen3Reranker"}
    /\ docstore \in {Pool, {n \in Pool : n.doc = <<6, 3, 3>>}}
    /\ faults \in FaultChoices(question, q_type, config, reranker)
    /\ model_output = <<>>
    /\ query = question
    /\ \E plain \in RetrievedLists(docstore) :
       \E table \in (IF q_type = "table_data" THEN RetrievedLists(docstore)
                     ELSE {<<>>}) :
          retrieved = [plain |-> plain, table |-> table]
    /\ vector_retrieved \in
          (IF doc_match(question) # <<>>
           THEN {l \in RetrievedLists(docstore) : Len(l) = Cardinality(docstore)}
           ELSE {<<>>})
    /\ nodes = <<>>
    /\ RestIdle

AdaptiveRetrieval ==
    /\ pc = "retrieve_call"
    /\ LET r == adaptive_retrieval(config, reranker, faults, question, q_type,
                                   retrieved, vector_retrieved, docstore)
       IN  /\ nodes' = r.nodes
           /\ log' = log \cup r.log
           /\ pc' = IF r.raised THEN "retrieve_raised" ELSE "retrieve_ret"
    /\ UNCHANGED <<scoreVars, optionVars, runVars, evalVars, parseVars,
                   classifyVars, envVars, query, retrieved, vector_retrieved>>
    /\ UNCHANGED restVars

\* rerank_nodes called on the list the retriever returned
RerankNodes ==
    /\ pc = "rerank_call"
    /\ LET r == rerank_nodes(config, reranker, "reranker" \in faults, retrieved.plain)
       IN  /\ nodes' = r.nodes
           /\ log' = log \cup r.log
    /\ pc' = "rerank_ret"
    /\ UNCHANGED <<scoreVars, optionVars, runVars, evalVars, parseVars,
                   classifyVars, envVars, query, retrieved, vector_retrieved>>
    /\ UNCHANGED restVars

RetrieveNext == AdaptiveRetrieval \/ RerankNodes

SpecRetrieve == RetrieveInit /\ [][RetrieveNext]_vars

-----------------------------------------------------------------------------
(* SpecSave: save_predictions on every list of predictions, and              *)
(* load_ground_truth reading the file back                                   *)

\* the answer lists of distinct letters
AnswerLists ==
    {a \in SeqUpTo(Letters, Cardinality(Letters)) :
        \A i \in DOMAIN a : \A j \in DOMAIN a : i # j => a[i] # a[j]}

SaveInit ==
    /\ pc = "save_call"
    /\ log = {}
    /\ ScoreIdle
    /\ RunIdle
    /\ ParseIdle
    /\ RagIdle
    /\ HybridIdle
    /\ PromptIdle
    /\ \E n \in 0..MaxSaved : \E a \in [1..n -> AnswerLists] :
          predictions = [i \in 1..n |-> [idx |-> i - 1, answers |-> a[i]]]
    /\ ground_truth = <<>>
    /\ evaluation = NoEvaluation
    /\ file_lines = <<>>
    /\ loaded = <<>>

\* save_predictions(predictions, output_file)
SavePredictions ==
    /\ pc = "save_call"
    /\ file_lines' = save_predictions(predictions)
    /\ pc' = "save_ret"
    /\ UNCHANGED <<log, scoreVars, optionVars, runVars, evalVars, parseVars, ragVars,
                   keyword_retrieved, promptVars, loaded>>

\* load_ground_truth(file_path) on the file at hand: it returns its list, or
\* logs and raises
LoadGroundTruth ==
    /\ pc \in {"save_ret", "load_call"}
    /\ LET r == load_ground_truth(file_lines)
       IN  IF r.raised
           THEN /\ pc' = "load_raised"
                /\ log' = log \cup {"load_ground_truth_error"}
                /\ UNCHANGED loaded
           ELSE /\ pc' = "load_ret"
                /\ loaded' = r.results
                /\ UNCHANGED log
    /\ UNCHANGED <<scoreVars, optionVars, runVars, evalVars, parseVars, ragVars,
                   keyword_retrieved, promptVars, file_lines>>

SaveNext == SavePredictions \/ LoadGroundTruth

SpecSave == SaveInit /\ [][SaveNext]_vars

-----------------------------------------------------------------------------
(* SpecLoad: load_ground_truth on every file of a header and a few lines     *)

\* the characters of a line: a digit, the comma, a letter, whitespace and
\* anything else
FileChars == {"1", ",", "A", " ", "x"}

\* longer lines in the format of the file: two letters, quoted
ExampleLines == { <<"2", ",", "\"", "A", ",", "B", "\"">> }

LoadInit ==
    /\ pc = "load_call"
    /\ log = {}
    /\ ScoreIdle
    /\ RunIdle
    /\ EvalIdle
    /\ ParseIdle
    /\ RagIdle
    /\ HybridIdle
    /\ PromptIdle
    /\ \E data \in SeqUpTo(SeqUpTo(FileChars, MaxLineLen) \cup ExampleLines,
                           MaxFileLines) :
          file_lines = <<HEADER>> \o data
    /\ loaded = <<>>

LoadNext == LoadGroundTruth

SpecLoad == LoadInit /\ [][LoadNext]_vars

-----------------------------------------------------------------------------
(* SpecPrompt: generate_adaptive_prompt for a question of every category and *)
(* every context                                                             *)

PromptInit ==
    /\ pc = "prompt_call"
    /\ log = {}
    /\ ScoreIdle
    /\ RunIdle
    /\ EvalIdle
    /\ ParseIdle
    /\ EnvIdle
    /\ HybridIdle
    /\ FileIdle
    /\ question \in RetrievalQuestions
    /\ q_type = classify(question)
    /\ classifier = "QuestionClassifier"
    /\ memo = <<>>
    /\ query = <<>>
    /\ retrieved = [plain |-> <<>>, table |-> <<>>]
    /\ vector_retrieved = <<>>
    /\ nodes \in RetrievedLists(Pool)
    /\ context = JoinTexts(nodes)
    /\ prompt = <<>>

GenerateAdaptivePrompt ==
    /\ pc = "prompt_call"
    /\ prompt' = generate_adaptive_prompt(question, q_type, context)
    /\ pc' = "prompt_ret"
    /\ UNCHANGED <<log, scoreVars, optionVars, runVars, evalVars, parseVars, ragVars,
                   keyword_retrieved, context, fileVars>>

PromptNext == GenerateAdaptivePrompt

SpecPrompt == PromptInit /\ [][PromptNext]_vars

-----------------------------------------------------------------------------
(* SpecHybrid: HybridRetriever._retrieve for every fusion weight, combined   *)
(* top-K and pair of lists the two searches return                           *)

\* the lists a search can return: no node twice, each node with the score the
\* search gives it, best first
ScoredLists ==
    {l \in SeqUpTo({[n EXCEPT !.score = s] : n \in Pool, s \in 0..MaxHybridScore},
                   MaxHybridLen) :
        \A i \in DOMAIN l : \A j \in DOMAIN l :
            i < j => (l[i].id # l[j].id /\ l[i].score >= l[j].score)}

HybridInit ==
    /\ pc = "hybrid_call"
    /\ log = {}
    /\ ScoreIdle
    /\ RunIdle
    /\ EvalIdle
    /\ ParseIdle
    /\ ClassifyIdle
    /\ PromptIdle
    /\ FileIdle
    /\ config \in {[RAGConfig EXCEPT !.HYBRID_ALPHA = a, !.HYBRID_COMBINED_TOP_K = k] :
                      a \in {0, RAGConfig.HYBRID_ALPHA, ALPHA_ONE},
                      k \in 1..MaxCombinedTopK}
    /\ generation_model = "None"
    /\ tokenizer = "None"
    /\ reranker = "None"
    /\ docstore = Pool
    /\ faults = {}
    /\ model_output = <<>>
    /\ query = <<>>
    /\ retrieved = [plain |-> <<>>, table |-> <<>>]
    /\ vector_retrieved \in ScoredLists
    /\ keyword_retrieved \in ScoredLists
    /\ nodes = <<>>

\* HybridRetriever._retrieve(query_bundle)
HybridRetrieve ==
    /\ pc = "hybrid_call"
    /\ nodes' = retrieve(config.HYBRID_ALPHA, config.HYBRID_COMBINED_TOP_K,
                         vector_retrieved, keyword_retrieved)
    /\ pc' = "hybrid_ret"
    /\ UNCHANGED <<log, scoreVars, optionVars, runVars, evalVars, parseVars,
                   classifyVars, envVars, query, retrieved, vector_retrieved,
                   restVars>>

HybridNext == HybridRetrieve

SpecHybrid == HybridInit /\ [][HybridNext]_vars

-----------------------------------------------------------------------------
(* Claims about calculate_score, checked under SpecScore *)

\* the answers of the ground truth missing from the prediction
Missing(p, a) == Cardinality(SetOf(a) \ SetOf(p))
\* the answers of the prediction that are not in the ground truth
Extra(p, a) == Cardinality(SetOf(p) \ SetOf(a))

\* C1: calculate_score returns 1.0 when the predicted and actual lists are equal
\* as sets, 0.5 when exactly one element differs (one missing or one extra),
\* 0.0 when two or more differ in total, and never any other value.
C1_ScoreBySetDifference ==
    pc = "score_ret" =>
        /\ score \in {0, 5, 10}
        /\ (SetOf(predicted) = SetOf(actual)) <=> (score = 10)
        /\ (Missing(predicted, actual) + Extra(predicted, actual) = 1) <=> (score = 5)
        /\ (Missing(predicted, actual) + Extra(predicted, actual) >= 2) <=> (score = 0)

\* a call with a repeated letter whose prediction misses one answer has returned 0.5
C1_Witness ==
    /\ pc = "score_ret"
    /\ predicted = <<"A", "A">>
    /\ actual = <<"A", "B">>
    /\ score = 5

\* C4 as stated: the sentinel prediction scores as the empty prediction does
\* against every actual answer set.
C4_SentinelScoredAsEmpty ==
    (pc = "score_ret" /\ predicted = SENTINEL /\ SetOf(actual) \subseteq Letters) =>
        score = calculate_score(<<>>, actual)

\* C4 amended: the sentinel counts every actual answer as missing and its own
\* letter as one wrongly selected answer: it scores 0.5 against the empty
\* answer set and 0.0 against every other one, while the empty prediction
\* scores 1.0, 0.5, 0.0 against none, one, two or more actual answers.
C4_SentinelCountsOneWrong ==
    (pc = "score_ret" /\ SetOf(actual) \subseteq Letters) =>
        /\ predicted = SENTINEL =>
              /\ Missing(predicted, actual) = Cardinality(SetOf(actual))
              /\ Extra(predicted, actual) = 1
              /\ score = (IF SetOf(actual) = {} THEN 5 ELSE 0)
        /\ predicted = <<>> =>
              score = (IF Cardinality(SetOf(actual)) = 0 THEN 10
                       ELSE IF Cardinality(SetOf(actual)) = 1 THEN 5 ELSE 0)

\* the sentinel has been scored against a single actual answer: 0.0, where the
\* empty prediction scores 0.5
C4_Witness ==
    /\ pc = "score_ret"
    /\ predicted = SENTINEL
    /\ actual = <<"A">>
    /\ score = 0
    /\ calculate_score(<<>>, actual) = 5

\* C5 as stated: some pair of answer lists scores differently when swapped
\* (stated once calculate_score has returned: the pairs are those of the inputs).
C5_ScoreNotSymmetric ==
    pc = "score_ret" =>
    \E P \in SeqUpTo(ScoreLetters, MaxAnswerLen) :
        \E A \in SeqUpTo(ScoreLetters, MaxAnswerLen) :
            calculate_score(P, A) # calculate_score(A, P)

\* C5 amended: the score function is symmetric: every pair of answer lists
\* scores the same when swapped (the error count is the size of the symmetric
\* difference of the two sets).
C5_ScoreSymmetric ==
    pc = "score_ret" => score = calculate_score(actual, predicted)

\* a pair differing by one extra prediction has been scored: 0.5, as the
\* swapped pair (one missing answer) is
C5_Witness ==
    /\ pc = "score_ret"
    /\ predicted = <<"A", "B">>
    /\ actual = <<"A">>
    /\ score = 5

-----------------------------------------------------------------------------
(* Claims about evaluate_results, checked under SpecEval *)

\* the score of the i-th pair, from the inputs
PairScore(i) == calculate_score(predictions[i].answers, ground_truth[i].answers)
\* the positions evaluate_results is to score
ScoredPairs == 1..Min(Len(predictions), Len(ground_truth))
\* the number of scored pairs whose score is v
PairsScoring(v) == Cardinality({i \in ScoredPairs : PairScore(i) = v})

\* the answer lists of a list of entries
AnswersOf(entries) == [i \in DOMAIN entries |-> entries[i].answers]

\* C6: evaluate_results reports total_questions = number of scored pairs,
\* final_score = 100 * (sum of scores) / total_questions (0 without pairs), and
\* perfect / partial / wrong counts equal to the number of pairs scoring
\* 1.0 / 0.5 / 0.0, which add up to total_questions; the ground truth
\* [{A},{B,C},{},{A,B,C,D}] with predictions [{A},{B},{},{A,B,C}] gives scores
\* [1.0, 0.5, 1.0, 0.5], final score 75.0, perfect 2, partial 2, wrong 0.
C6_SummaryAggregates ==
    pc = "eval_ret" =>
        LET n == Cardinality(ScoredPairs)
            fs == evaluation.final_score
        IN  /\ evaluation.total_questions = n
            /\ evaluation.perfect_answers = PairsScoring(10)
            /\ evaluation.partial_answers = PairsScoring(5)
            /\ evaluation.wrong_answers = PairsScoring(0)
            /\ evaluation.perfect_answers + evaluation.partial_answers
                  + evaluation.wrong_answers = evaluation.total_questions
            /\ fs.den > 0
            \* final_score = 100 * (10 * perfect + 5 * partial) / 10 / n
            /\ n > 0 => fs.num * 10 * n
                          = 100 * (10 * PairsScoring(10) + 5 * PairsScoring(5)) * fs.den
            /\ n = 0 => fs.num = 0
            /\ (/\ AnswersOf(predictions) = <<<<"A">>, <<"B">>, <<>>, <<"A", "B", "C">>>>
                /\ AnswersOf(ground_truth)
                      = <<<<"A">>, <<"B", "C">>, <<>>, <<"A", "B", "C", "D">>>>)
               => /\ [i \in 1..4 |-> evaluation.detailed_results[i].score]
                        = <<10, 5, 10, 5>>
                  /\ fs.num = 75 * fs.den
                  /\ evaluation.perfect_answers = 2
                  /\ evaluation.partial_answers = 2
                  /\ evaluation.wrong_answers = 0

\* the four-question scenario has been evaluated to 75.0
C6_Witness ==
    /\ pc = "eval_ret"
    /\ AnswersOf(predictions) = <<<<"A">>, <<"B">>, <<>>, <<"A", "B", "C">>>>
    /\ AnswersOf(ground_truth) = <<<<"A">>, <<"B", "C">>, <<>>, <<"A", "B", "C", "D">>>>
    /\ evaluation.final_score.num = 75 * evaluation.final_score.den

\* C7: with lists of different lengths evaluate_results does not raise: it logs
\* the mismatch and scores exactly min(len(predictions), len(ground_truth))
\* pairs, the i-th prediction with the i-th ground-truth entry.
C7_MismatchTruncates ==
    (pc = "eval_ret" /\ Len(predictions) # Len(ground_truth)) =>
          /\ "mismatch" \in log
          /\ evaluation.total_questions = Min(Len(predictions), Len(ground_truth))
          /\ Len(evaluation.detailed_results) = Min(Len(predictions), Len(ground_truth))
          /\ \A i \in DOMAIN evaluation.detailed_results :
                /\ evaluation.detailed_results[i].question_idx = predictions[i].idx + 1
                /\ evaluation.detailed_results[i].predicted = predictions[i].answers
                /\ evaluation.detailed_results[i].actual = ground_truth[i].answers
                /\ evaluation.detailed_results[i].score = PairScore(i)

\* four predictions have been evaluated against two ground truths: two pairs
C7_Witness ==
    /\ pc = "eval_ret"
    /\ Len(predictions) = 4
    /\ Len(ground_truth) = 2
    /\ "mismatch" \in log
    /\ evaluation.total_questions = 2

-----------------------------------------------------------------------------
(* Claims about parse_answer, checked under SpecParse *)

\* the place of an option letter in ascending order
LetterRank(x) == CHOOSE i \in 1..4 : <<"A", "B", "C", "D">>[i] = x

\* the marker at position j is followed by a letter a-d (either case) within
\* the run of letters, commas and whitespace that follows it
MarkerHasLetter(r, j) ==
    /\ r[j] = "M"
    /\ \E i \in (j + 1)..Len(r) :
          /\ IsLetter(r[i])
          /\ \A m \in (j + 1)..i : InGroup(r[m])

\* C10: parse_answer never returns an empty list: it returns the sentinel or a
\* non-empty, duplicate-free, ascending list of letters of {A,B,C,D}; empty or
\* whitespace-only input, text with no answer marker, and markers followed by
\* no A-D letter all yield the sentinel, which is no list of option letters.
C10_ParseNeverEmpty ==
    pc = "parse_ret" =>
        /\ parsed # <<>>
        /\ SetOf(SENTINEL) \cap Letters = {}
        /\ \/ parsed = SENTINEL
           \/ /\ SetOf(parsed) \subseteq Letters
              /\ \A i \in DOMAIN parsed : \A j \in DOMAIN parsed :
                    i < j => LetterRank(parsed[i]) < LetterRank(parsed[j])
        /\ IsBlank(response) => parsed = SENTINEL
        /\ (\A j \in DOMAIN response : response[j] # "M") => parsed = SENTINEL
        /\ (\A j \in DOMAIN response : ~MarkerHasLetter(response, j))
              => parsed = SENTINEL

\* a response whose marker is followed by a comma only has parsed to the sentinel
C10_Witness ==
    /\ pc = "parse_ret"
    /\ response = <<"M", " ", ",">>
    /\ parsed = SENTINEL

-----------------------------------------------------------------------------
(* Claims about the score of the sentinel, checked under SpecScore *)

\* C14: the unparseable sentinel, as a question's prediction, scores 0.0 against
\* every non-empty ground-truth answer set of option letters.
C14_SentinelScoresZero ==
    (/\ pc = "score_ret"
     /\ predicted = SENTINEL
     /\ actual # <<>>
     /\ SetOf(actual) \subseteq Letters) => score = 0

\* the sentinel has been scored against one actual answer, where one error
\* would still earn half a point, and against two
C14_Witness ==
    /\ pc = "score_ret"
    /\ predicted = SENTINEL
    /\ actual \in {<<"B">>, <<"B", "C">>}
    /\ score = 0

-----------------------------------------------------------------------------
(* Claims about which marker and which letters parse_answer returns *)

\* the positions of the answer marker in the response
MarkerPositions(r) == {j \in DOMAIN r : r[j] = "M"}

\* the last occurrence of the marker
LastMarker(r) ==
    CHOOSE j \in MarkerPositions(r) : \A m \in MarkerPositions(r) : m <= j

\* the letters A-D, in upper case, of the list that follows the marker at j: the
\* letters reached from the marker through letters, commas and whitespace only
ListedLetters(r, j) ==
    {Upper(r[i]) : i \in {n \in (j + 1)..Len(r) :
                             /\ IsLetter(r[n])
                             /\ \A m \in (j + 1)..n : InGroup(r[m])}}

\* list holds exactly the letters of S, each once, in ascending order
IsAscendingListOf(list, S) ==
    /\ SetOf(list) = S
    /\ Len(list) = Cardinality(S)
    /\ \A i \in DOMAIN list : \A j \in DOMAIN list :
          i < j => LetterRank(list[i]) < LetterRank(list[j])

\* C11 as stated: for every response with two or more occurrences of the
\* answer marker, the parsed result is determined by the last occurrence in the
\* text: its letters, and the sentinel when it lists none.
C11_LastOccurrenceDecides ==
    (pc = "parse_ret" /\ Cardinality(MarkerPositions(response)) >= 2) =>
        IF ListedLetters(response, LastMarker(response)) = {}
        THEN parsed = SENTINEL
        ELSE IsAscendingListOf(parsed,
                 ListedLetters(response, LastMarker(response)))

\* C11: for every response with two or more occurrences of the answer marker
\* whose last occurrence is followed by a list with at least one letter A-D,
\* the parsed result is the letters of that last occurrence, not those of any
\* earlier one.
C11_LastListedOccurrenceWins ==
    (/\ pc = "parse_ret"
     /\ Cardinality(MarkerPositions(response)) >= 2
     /\ ListedLetters(response, LastMarker(response)) # {}) =>
        IsAscendingListOf(parsed, ListedLetters(response, LastMarker(response)))

\* two answer statements with different letters have parsed to the second one
C11_Witness ==
    /\ pc = "parse_ret"
    /\ response = <<"M", "A", "M", "B">>
    /\ parsed = <<"B">>

\* C12: for a response with one answer statement, the marker followed by a
\* comma-separated list of letters, parse_answer returns every letter A-D of the
\* list, once each and in ascending order, whatever the order and the repeats
\* of the letters in the list.
C12_ListDedupedAndSorted ==
    (/\ pc = "parse_ret"
     /\ Cardinality(MarkerPositions(response)) = 1
     /\ ListedLetters(response, LastMarker(response)) # {}) =>
        /\ IsAscendingListOf(parsed, ListedLetters(response, LastMarker(response)))
        /\ \A i \in DOMAIN parsed : \E n \in DOMAIN response :
              Upper(response[n]) = parsed[i]

\* the list "C, A, C" has parsed to [A, C]
C12_Witness ==
    /\ pc = "parse_ret"
    /\ response = <<"M", " ", "C", ",", " ", "A", ",", " ", "C">>
    /\ parsed = <<"A", "C">>

\* no pattern of parse_answer matches: no marker is followed by a letter, a
\* comma or whitespace
NoPatternMatches(r) ==
    \A j \in DOMAIN r : ~(r[j] = "M" /\ j < Len(r) /\ InGroup(r[j + 1]))

\* the letters A-D that occur anywhere in the text
TextLetters(r) == {r[i] : i \in {n \in DOMAIN r : r[n] \in Letters}}

\* C13 as stated: when no answer pattern matches, parse_answer returns the
\* letters A-D found by scanning the text, and the sentinel only if the text
\* holds no such letter.
C13_FallbackScansText ==
    (pc = "parse_ret" /\ NoPatternMatches(response)) =>
        IF TextLetters(response) = {}
        THEN parsed = SENTINEL
        ELSE IsAscendingListOf(parsed, TextLetters(response))

\* C13: when no answer pattern matches, parse_answer returns the sentinel,
\* whether or not the text holds letters A-D: there is no scan of the text, and
\* bare letters without the marker parse to the sentinel.
C13_NoMatchGivesSentinel ==
    (pc = "parse_ret" /\ NoPatternMatches(response)) => parsed = SENTINEL

\* bare letters without a marker have parsed to the sentinel
C13_Witness ==
    /\ pc = "parse_ret"
    /\ response = <<"A", ",", "B">>
    /\ NoPatternMatches(response)
    /\ parsed = SENTINEL

-----------------------------------------------------------------------------
(* Claims about a failed generation, checked under SpecAnswer *)

\* C15: when the generation raises, generate_answer_with_qwen3 returns the
\* fixed apology instead of raising, parse_answer maps the apology to the
\* sentinel, and answer_mcq returns the sentinel, not the empty list of a failed
\* pipeline.
C15_GenerationFailureGivesSentinel ==
    (pc = "answer_ret" /\ "generation" \in faults /\ "pipeline" \notin faults) =>
        /\ response = APOLOGY
        /\ "generation_error" \in log
        /\ "answer_mcq_error" \notin log
        /\ parse_answer(APOLOGY) = SENTINEL
        /\ parsed = SENTINEL

\* the generation has raised where the model would have answered A
C15_Witness ==
    /\ pc = "answer_ret"
    /\ faults = {"generation"}
    /\ model_output = <<"M", " ", "A">>
    /\ response = APOLOGY
    /\ parsed = SENTINEL

-----------------------------------------------------------------------------
(* Claims about classify, checked under SpecCalls and SpecClassify *)

HasMatch(c, text) ==
    \E n \in DOMAIN patterns[c] : re_search(patterns[c][n], lower(text))

\* the fixed priority order of the categories
C17_Order ==
    << "table_data", "document_comprehension", "calculation", "definition",
       "comparison", "procedure", "explanation", "identification",
       "application", "reason" >>

\* C17: classify returns the first category, in the fixed priority order, that
\* has a matching pattern, and 'general' exactly when no category has one; a
\* question matching a table_data pattern and a calculation pattern is
\* classified table_data.
C17_FirstCategoryInPriorityOrder ==
    pc = "classify_ret" =>
        /\ q_type = "general" <=>
              \A i \in DOMAIN C17_Order : ~HasMatch(C17_Order[i], question)
        /\ \A i \in DOMAIN C17_Order :
              (/\ HasMatch(C17_Order[i], question)
               /\ \A j \in 1..(i - 1) : ~HasMatch(C17_Order[j], question))
                  => q_type = C17_Order[i]
        /\ (HasMatch("table_data", question) /\ HasMatch("calculation", question))
              => q_type = "table_data"

\* a question with a calculation cue and then a table cue is table_data
C17_Witness ==
    /\ pc = "classify_ret"
    /\ question = <<"hay tinh", "xyz", "theo bang">>
    /\ HasMatch("calculation", question)
    /\ q_type = "table_data"

-----------------------------------------------------------------------------
(* Claims about reformulate_query, checked under SpecReform *)

\* text is s without its leading and trailing whitespace
IsStripOf(text, s) ==
    \/ text = <<>> /\ \A i \in DOMAIN s : s[i] = " "
    \/ \E a \in DOMAIN s : \E b \in a..Len(s) :
          /\ text = SubSeq(s, a, b)
          /\ s[a] # " " /\ s[b] # " "
          /\ \A i \in DOMAIN s : (i < a \/ i > b) => s[i] = " "

\* C18: reformulate_query never raises; it returns the original question when
\* reformulation is disabled, when the generation model or the tokenizer is
\* missing, when generation raises, or when the stripped generated text is
\* empty or shorter than 5 characters; otherwise it returns the stripped
\* generated text, of length 5 or more.
C18_ReformulateFallsBackToQuestion ==
    pc = "reform_ret" =>
        IF \/ ~config.REFORMULATION_ENABLED
           \/ generation_model = "None"
           \/ tokenizer = "None"
           \/ "generation" \in faults
           \/ \E text \in SeqUpTo(ReformSymbols, 4) : IsStripOf(text, model_output)
        THEN query = question
        ELSE /\ IsStripOf(query, model_output)
             /\ Len(query) >= 5

\* a generated text of exactly 5 characters once stripped has been returned
C18_Witness ==
    /\ pc = "reform_ret"
    /\ model_output = <<" ", "x", "x", " ", "x", "x", " ">>
    /\ query = <<"x", "x", " ", "x", "x">>
    /\ question # query

-----------------------------------------------------------------------------
(* Claims about adaptive_retrieval, checked under SpecRetrieve *)

\* C19: for every category and every configuration (reranker enabled, disabled
\* or failing; any TOP_K and RERANKER_TOP_K), adaptive_retrieval returns at most
\* TOP_K passages.
C19_AtMostTopK ==
    pc = "retrieve_ret" => Len(nodes) <= config.TOP_K

\* C20: no exception raised inside the category-specific logic of
\* adaptive_retrieval, one raised by the branch's retriever call included,
\* propagates to the caller: the operation logs the error and returns the
\* result of the generic path, the first 2 * TOP_K retrieved passages reranked
\* and cut to TOP_K.
C20_BranchErrorsContained ==
    /\ pc # "retrieve_raised"
    /\ (pc = "retrieve_ret" /\ ("retriever" \in faults \/ "heuristic" \in faults)
           /\ "adaptive_retrieval_error" \in log) =>
          nodes = Take(rerank_nodes(config, reranker, "reranker" \in faults,
                                    Take(retrieved.plain, config.TOP_K * 2)).nodes,
                       config.TOP_K)

-----------------------------------------------------------------------------
(* Claims about document retrieval and rerank_nodes, checked under SpecRetrieve *)

\* the digits of the document a question refers to, written public_<digits> or
\* public <digits>; <<>> when it refers to none
DocRef(q) ==
    IF \E i \in DOMAIN q : lower(q)[i] \in {"public_172", "public 172"}
    THEN <<1, 7, 2>> ELSE <<>>

\* the filtered retrieval of the document was made and found no passage
FilteredRetrievalEmpty ==
    /\ doc_match(question) # <<>>
    /\ LET from_doc == {n \in docstore : FileMatches(n.doc, doc_match(question))}
           found == Take(vector_retrieved,
                         Min(Cardinality(from_doc), config.TOP_K * 2))
       IN  \A i \in DOMAIN found : found[i] \notin from_doc

\* C21: for a document_comprehension question that refers to a document as
\* public_<digits> or as public <digits>, when the index holds passages of that
\* document and no call fails, every passage adaptive_retrieval returns comes
\* from that document, unless the filtered retrieval found nothing.
C21_OnlyPassagesOfTheDocument ==
    (pc = "retrieve_ret" /\ q_type = "document_comprehension"
        /\ DocRef(question) # <<>> /\ faults = {}
        /\ \E n \in docstore : n.doc = DocRef(question)) =>
       \/ \A i \in DOMAIN nodes : nodes[i].doc = DocRef(question)
       \/ FilteredRetrievalEmpty

\* rerank_nodes gets past its guards and compute_scores returns
RerankSucceeds(ns) ==
    config.RERANKER_ENABLED /\ reranker # "None" /\ ns # <<>> /\ "reranker" \notin faults

\* C22: rerank_nodes returns, and returns the list it was given (the same
\* passages in the same order with the scores they had), whenever the reranker
\* is disabled by the configuration, the reranker model is not loaded, the list
\* is empty or compute_scores raises.
C22_RerankLeavesInputUnchanged ==
    (pc = "rerank_ret" /\ ~RerankSucceeds(retrieved.plain)) => nodes = retrieved.plain

\* rerank_nodes returned from a list of two passages or more whose scoring
\* raised
C22_Witness ==
    /\ pc = "rerank_ret"
    /\ config.RERANKER_ENABLED /\ reranker # "None"
    /\ "reranker" \in faults
    /\ "rerank_error" \in log
    /\ Len(retrieved.plain) >= 2
    /\ nodes = retrieved.plain

\* list is in non-increasing order of rerank score, and every passage of it
\* carries its rerank score as its score
InRerankOrder(list) ==
    /\ \A i \in DOMAIN list : list[i].score = list[i].relevance
    /\ \A i \in DOMAIN list : \A j \in DOMAIN list :
          i < j => list[i].relevance >= list[j].relevance

\* C23: when reranking succeeds on n passages, rerank_nodes returns
\* min(n, RERANKER_TOP_K) passages (n when RERANKER_TOP_K is None), all distinct
\* and all of the input, in non-increasing order of rerank score, each with its
\* rerank score in place of its retrieval score; and the list adaptive_retrieval
\* returns after a successful reranking is in that order too, for every
\* category.
C23_RerankedOrder ==
    /\ (pc = "rerank_ret" /\ RerankSucceeds(retrieved.plain)) =>
          /\ Len(nodes) = IF config.RERANKER_TOP_K = 0 THEN Len(retrieved.plain)
                          ELSE Min(Len(retrieved.plain), config.RERANKER_TOP_K)
          /\ \A i \in DOMAIN nodes : \A j \in DOMAIN nodes :
                i # j => nodes[i].id # nodes[j].id
          /\ \A i \in DOMAIN nodes : \E j \in DOMAIN retrieved.plain :
                [nodes[i] EXCEPT !.score = retrieved.plain[j].score] = retrieved.plain[j]
          /\ InRerankOrder(nodes)
    /\ (pc = "retrieve_ret" /\ RerankSucceeds(nodes)) => InRerankOrder(nodes)

\* rerank_nodes scored three passages that were not in rerank order and kept
\* the best two
C23_Witness ==
    /\ pc = "rerank_ret"
    /\ RerankSucceeds(retrieved.plain)
    /\ Len(retrieved.plain) = 3
    /\ config.RERANKER_TOP_K = 2
    /\ retrieved.plain[1].relevance < retrieved.plain[3].relevance
    /\ Len(nodes) = 2
    /\ nodes[1].score > nodes[2].score

-----------------------------------------------------------------------------
(* Claims about run_complete_evaluation, checked under SpecRun *)

\* the 0-based bank rows of the range start-end, in bank order
RangeRows(rng) == [i \in 1..(rng[2] - rng[1] + 1) |-> rng[1] - 1 + (i - 1)]

\* run_complete_evaluation has loaded and selected its data
RunLoaded == pc \in {"run_batch", "run_ret", "run_raised"}

\* C2: for every combination of the range, limit and random-sampling options,
\* the i-th prediction evaluated, that of bank row r, is scored against entry r
\* of the ground-truth list as loaded.
C2_PairsAligned ==
    pc = "run_ret" =>
        \A i \in 1..Min(Len(predictions), Len(ground_truth)) :
            /\ ground_truth[i].row = predictions[i].idx
            /\ evaluation.detailed_results[i].actual
                  = truth_file[predictions[i].idx + 1].answers

\* C3: a question whose pipeline raised does not abort the batch and is recorded
\* with an empty prediction whose score in the summary is 0.0.
C3_FailedQuestionScoresZero ==
    pc = "run_ret" =>
        /\ Len(predictions) = Len(questions_df)
        /\ \A i \in DOMAIN predictions :
              predictions[i].idx \in failed => predictions[i].answers = <<>>
        /\ \A i \in DOMAIN evaluation.detailed_results :
              (evaluation.detailed_results[i].question_idx - 1) \in failed =>
                  /\ evaluation.detailed_results[i].predicted = <<>>
                  /\ evaluation.detailed_results[i].score = 0

\* C8: the range is applied first and the limit or sampling second: a range
\* s-e within the bank selects rows s..e in bank order; a limit L smaller than
\* that subset keeps L rows of it (the first L when sampling is not random);
\* and the ground truth used is rows s..e of the loaded list.
C8_RangeThenLimit ==
    (RunLoaded /\ range_spec # <<>> /\ range_spec[2] <= total_questions) =>
        LET rows == RangeRows(range_spec)
        IN  /\ apply_range([i \in 1..total_questions |-> i - 1], range_spec) = rows
            /\ SetOf(questions_df) \subseteq SetOf(rows)
            /\ (limit = 0 \/ limit >= Len(rows)) => questions_df = rows
            /\ (limit # 0 /\ limit < Len(rows)) =>
                  /\ Len(questions_df) = limit
                  /\ Cardinality(SetOf(questions_df)) = limit
                  /\ ~random_sampling => questions_df = SubSeq(rows, 1, limit)
            /\ ground_truth = [i \in DOMAIN rows |-> truth_file[rows[i] + 1]]
            /\ \A i \in DOMAIN ground_truth : ground_truth[i].row = rows[i]

\* the range 2-3 of a three-row bank with limit 1 has selected row 2 alone, and
\* the ground truth used is rows 2 and 3 of the loaded list
C8_Witness ==
    /\ pc = "run_batch"
    /\ total_questions = 3
    /\ range_spec = <<2, 3>>
    /\ limit = 1
    /\ ~random_sampling
    /\ questions_df = <<1>>
    /\ Len(ground_truth) = 2
    /\ ground_truth[1].row = 1
    /\ ground_truth[2].row = 2

\* C9: run_complete_evaluation always completes: whatever the selection (an
\* empty one included) and however many questions failed, it does not raise,
\* and when it has returned both artifacts are written.
C9_RunAlwaysCompletes ==
    /\ pc # "run_raised"
    /\ pc = "run_ret" => artifacts = {PredictionsFile, EvaluationFile}

-----------------------------------------------------------------------------
(* Claims about prose after the answer list, checked under SpecParse *)

\* the response ends with its last answer statement: the marker followed by a
\* list of upper-case letters, commas and whitespace that ends with a letter
EndsWithAnswerList(r) ==
    /\ MarkerPositions(r) # {}
    /\ LastMarker(r) < Len(r)
    /\ \A i \in (LastMarker(r) + 1)..Len(r) : r[i] \in Letters \cup {",", " "}
    /\ r[Len(r)] \in Letters

\* prose that can follow the list: a word, and a word that begins with the
\* letter d, each after a blank
FollowingProse == {<<" ", "x">>, <<" ", "d", "x">>}

\* C28: for every response that ends with its last answer statement, appending
\* prose after the list, a word that begins with the letter d included, leaves
\* the parsed result as it is.
C28_ProseAfterListIgnored ==
    (pc = "parse_ret" /\ EndsWithAnswerList(response)) =>
        \A prose \in FollowingProse : parse_answer(response \o prose) = parsed

-----------------------------------------------------------------------------
(* Claims about the predictions file, checked under SpecRun *)

\* line is "<count>,<letters>" for the answer list: the count of the letters,
\* a comma, and nothing for no letter, the letter for one, the letters joined
\* by commas between double quotes for more
IsPredictionLineOf(line, answers) ==
    LET n == Len(answers)
    IN  CASE n = 0 -> line = <<"0", ",">>
          [] n = 1 -> line = <<"1", ",", answers[1]>>
          [] OTHER ->
               /\ n < 10
               /\ Len(line) = 2 * n + 3
               /\ line[1] = DIGITS[n + 1]
               /\ line[2] = ","
               /\ line[3] = "\"" /\ line[Len(line)] = "\""
               /\ \A k \in 1..n : line[2 * k + 2] = answers[k]
               /\ \A k \in 1..(n - 1) : line[2 * k + 3] = ","

\* C25: the predictions file of a completed run is the header line followed by
\* exactly one line per processed question, those that failed included, in
\* ascending order of the questions' ordinals in the bank; the line of a
\* question is "<count>,<letters>" for its answer list, which is empty for a
\* question that failed.
C25_OneLinePerQuestionInOrder ==
    pc = "run_ret" =>
       /\ PredictionsFile \in artifacts
       /\ file_lines[1] = HEADER
       /\ Len(file_lines) = 1 + Len(questions_df)
       /\ Len(predictions) = Len(questions_df)
       /\ {predictions[i].idx : i \in DOMAIN predictions} = SetOf(questions_df)
       /\ SetOf(predictions) = SetOf(results)
       /\ \A i \in DOMAIN predictions : \A j \in DOMAIN predictions :
             i < j => predictions[i].idx < predictions[j].idx
       /\ \A i \in DOMAIN predictions :
             /\ IsPredictionLineOf(file_lines[i + 1], predictions[i].answers)
             /\ predictions[i].idx \in failed => file_lines[i + 1] = <<"0", ",">>

\* a run over questions sampled out of bank order has written the file: a
\* question that failed and one answered with two letters
C25_Witness ==
    /\ pc = "run_ret"
    /\ \E i \in DOMAIN questions_df : \E j \in DOMAIN questions_df :
          i < j /\ questions_df[i] > questions_df[j]
    /\ \E i \in DOMAIN predictions : predictions[i].idx \in failed
    /\ \E i \in DOMAIN file_lines : file_lines[i] = <<"2", ",", "\"", "A", ",", "B", "\"">>

-----------------------------------------------------------------------------
(* Claims about the predictions file read back, checked under SpecSave *)

\* C30: for every list of predictions whose answers are lists of distinct
\* letters (none, one or several), load_ground_truth reads the file
\* save_predictions wrote without raising and returns one entry per prediction,
\* in the same order, whose count is the number of letters and whose answers
\* are the letters written.
C30_PredictionsRoundTrip ==
    /\ pc # "load_raised"
    /\ pc = "load_ret" =>
          /\ Len(loaded) = Len(predictions)
          /\ \A i \in DOMAIN predictions :
                /\ loaded[i].num_correct = Len(predictions[i].answers)
                /\ loaded[i].answers =
                      [j \in DOMAIN predictions[i].answers |->
                          Chars(predictions[i].answers[j])]

\* a file of an empty answer list and a list of several letters out of
\* alphabetical order has been read back
C30_Witness ==
    /\ pc = "load_ret"
    /\ Len(predictions) = 2
    /\ predictions[1].answers = <<>>
    /\ predictions[2].answers = <<"C", "A", "D">>
    /\ file_lines[3] = <<"3", ",", "\"", "C", ",", "A", ",", "D", "\"">>
    /\ loaded[2].answers = <<<<"C">>, <<"A">>, <<"D">>>>

-----------------------------------------------------------------------------
(* Claims about malformed ground-truth files, checked under SpecLoad *)

\* the lines after the header that are not blank, one per question of the bank
DataLines(lines) ==
    LET NotBlank(line) == ~IsBlank(line)
    IN  SelectSeq(SubSeq(lines, 2, Len(lines)), NotBlank)

\* the line holds a comma and an integer count before it
WellFormedLine(line) ==
    /\ FirstComma(Strip(line)) # 0
    /\ IsInt(SubSeq(Strip(line), 1, FirstComma(Strip(line)) - 1))

\* C26: load_ground_truth returns only from a file without a malformed line (a
\* line with no comma, or with a count that is no integer), so the i-th entry
\* it returns is the entry of the i-th line, the i-th question's.
C26_MalformedLineIsFatal ==
    pc = "load_ret" =>
       /\ \A i \in DOMAIN DataLines(file_lines) : WellFormedLine(DataLines(file_lines)[i])
       /\ Len(loaded) = Len(DataLines(file_lines))
       /\ \A i \in DOMAIN loaded :
             loaded[i] = LineEntry(Strip(DataLines(file_lines)[i]))

-----------------------------------------------------------------------------
(* Claims about the instruction block of a prompt, checked under SpecPrompt *)

\* the lines generate_adaptive_prompt appended after the options
InstructionBlock ==
    SubSeq(prompt, Len(base_prompt(question, context)) + 1, Len(prompt))

\* C24: for every category, the instruction block appended to the prompt holds
\* both parts of the output contract: the line that gives the answer format
\* and the line that gives the fallback phrase for an insufficient context.
C24_BlockHoldsOutputContract ==
    pc = "prompt_ret" =>
       /\ FORMAT_LINE \in SetOf(InstructionBlock)
       /\ FALLBACK_LINE \in SetOf(InstructionBlock)

-----------------------------------------------------------------------------
(* Claims about the hybrid fusion, checked under SpecHybrid *)

\* the ids of the nodes of a list
IdsOf(list) == {list[i].id : i \in DOMAIN list}

\* the score a search gave the node of this id, 0 when it did not find it
ScoreIn(list, id) == IF PositionOf(list, id) # 0 THEN list[PositionOf(list, id)].score ELSE 0

\* alpha * vector score + (1 - alpha) * keyword score of the node of this id, in
\* tenths, with no term for a search that did not find it
FusedScore(id) ==
    config.HYBRID_ALPHA * ScoreIn(vector_retrieved, id)
        + (ALPHA_ONE - config.HYBRID_ALPHA) * ScoreIn(keyword_retrieved, id)

\* C27 (alpha = 0.0): the list returned holds only passages the keyword search
\* found, in non-increasing order of keyword score; (alpha = 1.0): it holds
\* only passages the vector search found, in non-increasing order of vector
\* score.
C27_ExtremeWeightsSelectOneSearch ==
    /\ (pc = "hybrid_ret" /\ config.HYBRID_ALPHA = 0) =>
          /\ IdsOf(nodes) \subseteq IdsOf(keyword_retrieved)
          /\ \A i \in DOMAIN nodes : \A j \in DOMAIN nodes :
                i < j => ScoreIn(keyword_retrieved, nodes[i].id)
                            >= ScoreIn(keyword_retrieved, nodes[j].id)
    /\ (pc = "hybrid_ret" /\ config.HYBRID_ALPHA = ALPHA_ONE) =>
          /\ IdsOf(nodes) \subseteq IdsOf(vector_retrieved)
          /\ \A i \in DOMAIN nodes : \A j \in DOMAIN nodes :
                i < j => ScoreIn(vector_retrieved, nodes[i].id)
                            >= ScoreIn(vector_retrieved, nodes[j].id)

\* C29: _retrieve returns each passage at most once, whichever searches found
\* it; a returned passage was found by a search and carries the fused score
\* alpha * vector score + (1 - alpha) * keyword score, with no term for a
\* search that did not find it; the list is in non-increasing order of fused
\* score and is the passages found cut to the combined top-K, no passage left
\* out having a higher fused score than one returned.
C29_FusedOnceInOrder ==
    pc = "hybrid_ret" =>
       /\ \A i \in DOMAIN nodes : \A j \in DOMAIN nodes :
             i # j => nodes[i].id # nodes[j].id
       /\ IdsOf(nodes) \subseteq IdsOf(vector_retrieved) \cup IdsOf(keyword_retrieved)
       /\ \A i \in DOMAIN nodes : nodes[i].score = FusedScore(nodes[i].id)
       /\ \A i \in DOMAIN nodes : \A j \in DOMAIN nodes :
             i < j => nodes[i].score >= nodes[j].score
       /\ Len(nodes) = Min(config.HYBRID_COMBINED_TOP_K,
                           Cardinality(IdsOf(vector_retrieved)
                                           \cup IdsOf(keyword_retrieved)))
       /\ \A id \in (IdsOf(vector_retrieved) \cup IdsOf(keyword_retrieved))
                        \ IdsOf(nodes) :
             \A i \in DOMAIN nodes : FusedScore(id) <= nodes[i].score

\* a balanced fusion has returned two of three passages: one both searches
\* found, with both terms in its score, and one only the keyword search found
C29_Witness ==
    /\ pc = "hybrid_ret"
    /\ config.HYBRID_ALPHA = 5
    /\ config.HYBRID_COMBINED_TOP_K = 2
    /\ Cardinality(IdsOf(vector_retrieved) \cup IdsOf(keyword_retrieved)) = 3
    /\ Len(nodes) = 2
    /\ nodes[1].id \in IdsOf(vector_retrieved) \cap IdsOf(keyword_retrieved)
    /\ nodes[1].score = 15
    /\ nodes[2].id \in IdsOf(keyword_retrieved) \ IdsOf(vector_retrieved)
    /\ nodes[2].score = 10

=============================================================================
